---- MODULE Spec2Model ----
(***************************************************************************)
(* Model of the coordination code of the Online YOLO Object Detection      *)
(* Toolkit: the job registry (finetune / validate tasks, the celery        *)
(* worker and the training callback), the per-user model cache of          *)
(* InferenceService with its loader threads and idle sweeper, the Start    *)
(* command with the futures of InferenceExecutor, and the                  *)
(* UserSessionManager session store.                                       *)
(*                                                                         *)
(* The specifications of the module:                                       *)
(*   SpecJob     - one job record, the request handlers that create and    *)
(*                 cancel it, and the worker process that executes it;     *)
(*   SpecQueue   - the queue position shown for queued jobs;               *)
(*   SpecCache   - the model cache, load/eject/delete requests, loader     *)
(*                 threads and the idle sweeper;                           *)
(*   SpecInfer   - picture upload, model load and the Start command with   *)
(*                 the worker pool;                                        *)
(*   SpecPool    - SpecInfer without the clock;                            *)
(*   SpecEvict   - the Start command together with the idle sweeper;       *)
(*   SpecSession - the session store and its lazy expiry;                  *)
(*   SpecSweep   - the session store with its cleanup thread;              *)
(*   SpecStop    - SpecCache together with shutdown_service;               *)
(*   SpecOwner   - SpecJob with requests of the owner and of another       *)
(*                 user, the read requests and the delete request.         *)
(* SpecJobFair, SpecCacheFair, SpecInferFair, SpecPoolFair and             *)
(* SpecStopFair add the fairness of the threads for the progress           *)
(* properties.                                                             *)
(* A database statement or a file-system call is one atomic step; a query  *)
(* followed by a commit is two steps, because the request handler and the  *)
(* worker are different processes that share only the database and the     *)
(* task directory.                                                         *)
(***************************************************************************)
EXTENDS Integers, Sequences, FiniteSets, TLC

(***************************************************************************)
(* Bounds of the model                                                     *)
(***************************************************************************)
\* epochs the trainer runs (trainer.epochs)
MaxEpochs == 2
\* seconds the clock may advance while the trainer runs
TimeSpan == 6
\* cancel requests issued against the job
MaxCancels == 2
\* loader threads started over the life of the service
MaxLoads == 2
\* times the clock of the serving process advances
MaxTicks == 1
\* Start commands issued
MaxStarts == 2
\* tasks of one kind that are created
MaxTasks == 3
\* distinct values of created_at
MaxStamp == 2
\* worker threads of the inference pool (INFERENCE_WORKERS)
max_workers == 2

(***************************************************************************)
(* Program constants                                                       *)
(***************************************************************************)
\* FinetuneProgressCallback.__init__(db_update_interval_seconds=5)
db_update_interval == 5

\* app.config.get('MODEL_MAX_IDLE_SECONDS', 15*60)
model_max_idle_time_seconds == 900

\* app.config.setdefault('USER_SESSION_TTL', 600)
max_age_seconds == 600

Kinds == {"finetune", "validate"}
Users == {"u1", "u2"}
Models == {"A", "B"}
Threads == {"t1", "t2"}
Files == {"f1", "f2"}
\* result, config and selected_model are stored and read by the same code;
\* one field stands for the three
Fields == {"result"}
TerminalStatuses == {"completed", "failed", "cancelled"}

VARIABLES
    \* ---- job registry ----
    kind,        \* which task table / worker function the job belongs to
    rec,         \* the persisted row of the job (NoRec when absent)
    dirExists,   \* the job's private directory exists
    sentinel,    \* the .cancel_signal / .cancel_signal_val file exists
    dispatched,  \* a celery message for the job is waiting for a worker
    cpc,         \* position of the create request
    wpc,         \* position of the worker inside run_*_task
    wSt,         \* status the worker last loaded into task_db_record
    success,     \* the flag returned by run_yolo_training / run_yolo_validation
    ephase,      \* position of the model engine between callbacks
    tepoch,      \* trainer.epoch (0-indexed)
    stop,        \* trainer.stop_training
    lastUpd,     \* callback.last_db_update_time_batch
    now,         \* time.time() in the worker
    hpc,         \* position of the cancel request
    hOrig,       \* original_status held by the cancel request
    lastCancel,  \* what the last cancel request returned (ok, HTTP code)
    cancels,     \* number of cancel requests issued so far
    \* ---- model cache (InferenceService) ----
    user_loaded_models,  \* user -> cache entry (NoEntry when the key is absent)
    last_access,         \* _user_model_last_access: user -> time (NoTime when absent)
    ulock,               \* user_model_management_locks: user -> holder
    modelFiles,          \* user -> model files in the user's inference directory
    selected,            \* selected model of the user's session (NoModel when None)
    rpc,                 \* position of the user's request thread
    rarg,                \* ModelName argument of the load request in progress
    loaders,             \* loader threads: id -> [user, model, phase]
    tclock,              \* time.time() in the serving process
    ticks,               \* number of clock advances so far
    spc,                 \* position of the sweeper thread
    sNow,                \* now of the running sweep cycle (0 between cycles)
    sList,               \* users_to_eject still to visit
    \* ---- task table of one kind (FinetuneTask or ValidateTask) ----
    tasks,               \* task id -> [status, created_at] (absent: not created)
    details,             \* task id -> queue_position of the last get_task_details
    \* ---- session store (UserSessionManager) ----
    user_data,           \* _user_data: user -> session entry (NoData when absent)
    disk,                \* files in the user's upload directory
    slock,               \* holder of UserSessionManager._lock ("free" or a thread)
    tpc,                 \* position of each request thread in the store
    tcall,               \* the call the thread executes: [op, user, field]
    tret,                \* what the thread's last call returned
    cleanup,             \* the thread that runs cleanup_expired_sessions
    \* ---- inference (start_inference, InferenceExecutor) ----
    fut,                 \* user -> the futures of the user's Start, by image
    ipos,                \* user -> number of futures whose result was taken
    starts,              \* number of Start commands issued so far
    cancelReq,           \* user -> futures on which cancel() was called
    abandoned,           \* tasks of ended commands still in the pool
    instance,            \* user -> model_instance of the Start in flight (0: none)
    resp,                \* user -> what the user's last Start command answered
    \* ---- shutdown of InferenceService ----
    stop_cleanup_event,  \* _stop_cleanup_event is set
    shpc,                \* position of the thread that calls shutdown_service
    \* ---- requests on a job by its owner and by other users ----
    dpc,                 \* position of the delete request
    lastReq              \* what the last delete, detail, log or output request returned

jobVars == <<kind, rec, dirExists, sentinel, dispatched, cpc, wpc, wSt, success,
             ephase, tepoch, stop, lastUpd, now, hpc, hOrig, lastCancel, cancels>>

queueVars == <<tasks, details>>

stopVars == <<stop_cleanup_event, shpc>>

ownerVars == <<dpc, lastReq>>

clockVars == <<tclock, ticks>>

cacheVars == <<user_loaded_models, last_access, ulock, modelFiles, selected, rpc, rarg,
               loaders, spc, sNow, sList>>

sessionVars == <<user_data, disk, slock, tpc, tcall, tret, cleanup>>

inferVars == <<fut, ipos, starts, cancelReq, abandoned, instance, resp>>

vars == <<jobVars, queueVars, stopVars, ownerVars, clockVars, cacheVars, sessionVars, inferVars>>

\* the variables an action of one part of the program leaves alone
notJob == <<queueVars, stopVars, ownerVars, clockVars, cacheVars, sessionVars, inferVars>>
notCache == <<jobVars, queueVars, stopVars, ownerVars, clockVars, sessionVars, inferVars>>
notQueue == <<jobVars, stopVars, ownerVars, clockVars, cacheVars, sessionVars, inferVars>>
notSession == <<jobVars, queueVars, stopVars, ownerVars, clockVars, cacheVars, inferVars>>

(***************************************************************************)
(* The job row                                                             *)
(***************************************************************************)
NoRec == [status |-> "none", started_at |-> FALSE, completed_at |-> FALSE,
          error_message |-> "", current_epoch |-> 0, metrics |-> "none",
          config |-> FALSE]

\* FinetuneTask(...) / ValidateTask(...) as built by create_*_task; config is
\* generated_config_yaml_name, None when dataset preparation returned an error
NewTask(prepOk) ==
    [status |-> "queued", started_at |-> FALSE, completed_at |-> FALSE,
     error_message |-> "", current_epoch |-> 0, metrics |-> "none",
     config |-> prepOk]

NoResult == [ok |-> FALSE, code |-> 0]

JobInit ==
    /\ kind = "none"
    /\ rec = NoRec
    /\ dirExists = FALSE
    /\ sentinel = FALSE
    /\ dispatched = FALSE
    /\ cpc = "idle"
    /\ wpc = "idle"
    /\ wSt = "none"
    /\ success = FALSE
    /\ ephase = "none"
    /\ tepoch = 0
    /\ stop = FALSE
    /\ lastUpd = 0
    /\ now = db_update_interval
    /\ hpc = "idle"
    /\ hOrig = "none"
    /\ lastCancel = NoResult
    /\ cancels = 0


(***************************************************************************)
(* Request handler: create_finetune_task / create_validate_task            *)
(***************************************************************************)
\* Directories are made, the inputs are saved and the dataset is prepared,
\* then the row is inserted in status queued.  inputsOk: the uploaded model
\* and archive were saved; prepOk: _prepare_dataset_and_config /
\* _prepare_uploaded_dataset_for_validation returned no error.
\* The finetune service cleans the directory up when preparation fails but
\* does not return; the validate service returns the error.
CreateInsert(k, inputsOk, prepOk) ==
    /\ cpc = "idle"
    /\ rec = NoRec
    /\ kind' = k
    /\ IF ~inputsOk
         THEN /\ dirExists' = FALSE
              /\ cpc' = "failed"
              /\ rec' = rec
         ELSE IF ~prepOk /\ k = "validate"
         THEN /\ dirExists' = FALSE
              /\ cpc' = "failed"
              /\ rec' = rec
         ELSE /\ dirExists' = prepOk
              /\ rec' = NewTask(prepOk)
              /\ cpc' = "send"
    /\ UNCHANGED <<sentinel, dispatched, wpc, wSt, success, ephase, tepoch,
                   stop, lastUpd, now, hpc, hOrig, lastCancel, cancels>>
    /\ UNCHANGED notJob

\* current_app.celery.send_task(...); when it raises, the handler writes
\* status failed into the row it has just inserted.
CreateDispatch(sendOk) ==
    /\ cpc = "send"
    /\ IF sendOk
         THEN /\ dispatched' = TRUE
              /\ cpc' = "done"
              /\ rec' = rec
         ELSE /\ dispatched' = dispatched
              /\ cpc' = "failed"
              /\ rec' = IF rec = NoRec THEN rec
                        ELSE [rec EXCEPT !.status = "failed",
                                         !.error_message = "dispatch"]
    /\ UNCHANGED <<kind, dirExists, sentinel, wpc, wSt, success, ephase, tepoch,
                   stop, lastUpd, now, hpc, hOrig, lastCancel, cancels>>
    /\ UNCHANGED notJob

(***************************************************************************)
(* Request handler: cancel_finetune_task / cancel_validate_task and the    *)
(* routes that turn their (ok, message) into an HTTP status                *)
(***************************************************************************)
\* cancel_task_route: 404 when the message says "not found", else 400.
\* cancel_validation_task_route: 404 for "not found", 409 for "cannot be
\* cancelled", else 400.
CancelErrorCode(k, message) ==
    IF message = "not_found" THEN 404
    ELSE IF k = "validate" /\ message = "cannot_cancel" THEN 409
    ELSE 400

\* the user who created the job: user_id of the row
Owner == "u1"

\* variant of FindTask for a query by id alone
FindTaskById(r, u) == r

\* Task.query.filter_by(id=task_id, user_id=user_id).first(): the row when
\* the requesting user is its owner, None otherwise
FindTask(r, u) == IF u = Owner THEN r ELSE NoRec

\* The query and the status test of the cancel request of user u.
CancelRead(u) ==
    /\ hpc = "idle"
    /\ cancels < MaxCancels
    /\ cancels' = cancels + 1
    /\ LET task == FindTask(rec, u)
       IN IF task = NoRec
            THEN /\ lastCancel' = [ok |-> FALSE, code |-> CancelErrorCode(kind, "not_found")]
                 /\ UNCHANGED <<hpc, hOrig>>
          ELSE IF task.status \notin {"queued", "running"}
            THEN /\ lastCancel' = [ok |-> FALSE, code |-> CancelErrorCode(kind, "cannot_cancel")]
                 /\ UNCHANGED <<hpc, hOrig>>
          ELSE /\ hpc' = "commit"
               /\ hOrig' = task.status
               /\ lastCancel' = NoResult
    /\ UNCHANGED <<kind, rec, dirExists, sentinel, dispatched, cpc, wpc, wSt, success,
                   ephase, tepoch, stop, lastUpd, now>>
    /\ UNCHANGED notJob

\* task.status = 'cancelled'; db.session.commit(); the sentinel file is
\* written when the status the request had read was running.  open(path, 'w')
\* raises when the task directory is missing: the finetune service then
\* returns its server-error failure after the commit, the validate service
\* logs the IOError and returns success.
CancelCommit ==
    /\ hpc = "commit"
    /\ rec' = IF rec = NoRec THEN rec ELSE [rec EXCEPT !.status = "cancelled"]
    /\ sentinel' = IF hOrig = "running" /\ dirExists THEN TRUE ELSE sentinel
    /\ lastCancel' = IF hOrig = "running" /\ ~dirExists /\ kind = "finetune"
                        THEN [ok |-> FALSE, code |-> CancelErrorCode(kind, "server_error")]
                        ELSE [ok |-> TRUE, code |-> 200]
    /\ hpc' = "idle"
    /\ hOrig' = "none"
    /\ UNCHANGED <<kind, dirExists, dispatched, cpc, wpc, wSt, success, ephase, tepoch,
                   stop, lastUpd, now, cancels>>
    /\ UNCHANGED notJob


(***************************************************************************)
(* Request handlers: delete_finetune_task / delete_validate_task and the   *)
(* read-only requests get_task_details, get_task_logs_content and          *)
(* get_task_output_archive_path                                            *)
(***************************************************************************)
NoDelete == [pc |-> "idle", user |-> ""]

\* existed records whether a row with the task id was in the table when the
\* request ran; the handler itself only knows what its query returned
NoReq == [user |-> "", op |-> "none", found |-> FALSE, ok |-> FALSE, task |-> NoRec,
          existed |-> FALSE]

OwnerInit ==
    /\ dpc = NoDelete
    /\ lastReq = NoReq

ReadOps == {"details", "logs", "output"}

\* The query and the status test of the delete request of user u.
DeleteRead(u) ==
    /\ dpc = NoDelete
    /\ LET task == FindTask(rec, u)
       IN /\ dpc' = IF task # NoRec /\ task.status # "running"
                      THEN [pc |-> "rmtree", user |-> u] ELSE dpc
          /\ lastReq' = [user |-> u, op |-> "delete", found |-> task # NoRec,
                         ok |-> FALSE, task |-> NoRec, existed |-> rec # NoRec]
    /\ UNCHANGED <<jobVars, queueVars, stopVars, clockVars, cacheVars, sessionVars,
                   inferVars>>

\* db.session.delete(task); shutil.rmtree(user_task_base_dir) when the
\* directory exists.  removed = FALSE: rmtree raises OSError; the handler
\* commits all the same and returns success with a warning.
DeleteRmtree(removed) ==
    /\ dpc.pc = "rmtree"
    /\ dpc' = [dpc EXCEPT !.pc = "commit"]
    /\ dirExists' = IF removed THEN FALSE ELSE dirExists
    /\ sentinel' = IF removed THEN FALSE ELSE sentinel
    /\ UNCHANGED <<kind, rec, dispatched, cpc, wpc, wSt, success, ephase, tepoch, stop,
                   lastUpd, now, hpc, hOrig, lastCancel, cancels>>
    /\ UNCHANGED <<lastReq, queueVars, stopVars, clockVars, cacheVars, sessionVars,
                   inferVars>>

\* db.session.commit(): the row is gone and the request returns success
DeleteCommit ==
    /\ dpc.pc = "commit"
    /\ rec' = NoRec
    /\ lastReq' = [user |-> dpc.user, op |-> "delete", found |-> TRUE, ok |-> TRUE,
                   task |-> NoRec, existed |-> TRUE]
    /\ dpc' = NoDelete
    /\ UNCHANGED <<kind, dirExists, sentinel, dispatched, cpc, wpc, wSt, success, ephase,
                   tepoch, stop, lastUpd, now, hpc, hOrig, lastCancel, cancels>>
    /\ UNCHANGED <<queueVars, stopVars, clockVars, cacheVars, sessionVars, inferVars>>

\* get_task_details returns the fields of the row, get_task_logs_content the
\* log of the job, get_task_output_archive_path the archive of a completed
\* job; each returns None / an error when its query finds no row.
ReadRequest(u, op) ==
    /\ LET task == FindTask(rec, u)
       IN lastReq' = [user |-> u, op |-> op, found |-> task # NoRec,
                      ok |-> /\ task # NoRec
                             /\ op = "output" => task.status = "completed",
                      task |-> IF op = "details" THEN task ELSE NoRec,
                      existed |-> rec # NoRec]
    /\ UNCHANGED <<dpc, jobVars, queueVars, stopVars, clockVars, cacheVars, sessionVars,
                   inferVars>>

(***************************************************************************)
(* Worker process: run_finetune_training_task / run_validation_task        *)
(***************************************************************************)
\* The first query of the task and the test for a job cancelled while queued.
WLoad ==
    /\ wpc = "idle"
    /\ dispatched
    /\ dispatched' = FALSE
    /\ wSt' = rec.status
    /\ wpc' = IF rec = NoRec THEN "done"
              ELSE IF rec.status = "cancelled" THEN "precancel"
              ELSE "start"
    /\ UNCHANGED <<kind, rec, dirExists, sentinel, cpc, success, ephase, tepoch,
                   stop, lastUpd, now, hpc, hOrig, lastCancel, cancels>>
    /\ UNCHANGED notJob

\* os.remove(cancel_signal_file) of a job found cancelled, before or after
\* the engine ran; the worker then returns through its finally block.
WCancelledCleanup ==
    /\ wpc \in {"precancel", "postcancel"}
    /\ sentinel' = FALSE
    /\ wpc' = "finally"
    /\ UNCHANGED <<kind, rec, dirExists, dispatched, cpc, wSt, success, ephase, tepoch,
                   stop, lastUpd, now, hpc, hOrig, lastCancel, cancels>>
    /\ UNCHANGED notJob

\* task_db_record.status = 'running'; started_at = now(); commit
WStartCommit ==
    /\ wpc = "start"
    /\ rec' = IF rec = NoRec THEN rec
              ELSE [rec EXCEPT !.status = "running", !.started_at = TRUE]
    /\ wpc' = IF kind = "finetune" THEN "prep" ELSE "check1"
    /\ UNCHANGED <<kind, dirExists, sentinel, dispatched, cpc, wSt, success, ephase,
                   tepoch, stop, lastUpd, now, hpc, hOrig, lastCancel, cancels>>
    /\ UNCHANGED notJob

\* run_validation_task polls the sentinel twice, before preparing the inputs
\* and before calling the engine: it writes cancelled, removes the file and
\* returns.
WSentinelCheck ==
    /\ wpc \in {"check1", "check2"}
    /\ IF sentinel
         THEN /\ rec' = IF rec = NoRec THEN rec
                        ELSE [rec EXCEPT !.status = "cancelled",
                                         !.error_message = "cancelled_before_run",
                                         !.completed_at = TRUE]
              /\ sentinel' = FALSE
              /\ wpc' = "finally"
         ELSE /\ UNCHANGED <<rec, sentinel>>
              /\ wpc' = IF wpc = "check1" THEN "prep" ELSE "engine"
    /\ UNCHANGED <<kind, dirExists, dispatched, cpc, wSt, success, ephase, tepoch,
                   stop, lastUpd, now, hpc, hOrig, lastCancel, cancels>>
    /\ UNCHANGED notJob

\* Paths, parameters and inputs are prepared.  The finetune worker joins the
\* input directory with generated_config_yaml_name, which raises when that
\* name is None, and get_task_log_path(ensure_exists=True) makes the log
\* directory.  outcome is what the preparation runs into otherwise.
WPrep(outcome) ==
    /\ wpc = "prep"
    /\ IF kind = "finetune"
         THEN IF ~rec.config \/ outcome # "ok"
                THEN /\ wpc' = "except"
                     /\ UNCHANGED <<dirExists, ephase>>
                ELSE /\ wpc' = "engine"
                     /\ ephase' = "pre_start"
                     /\ dirExists' = TRUE
         ELSE /\ wpc' = CASE outcome = "ok" -> "check2"
                          [] outcome = "value_error" -> "except"
                          [] OTHER -> "except_nf"
              /\ UNCHANGED <<dirExists, ephase>>
    /\ UNCHANGED <<kind, rec, sentinel, dispatched, cpc, wSt, success, tepoch,
                   stop, lastUpd, now, hpc, hOrig, lastCancel, cancels>>
    /\ UNCHANGED notJob

\* run_yolo_validation(...) returns (success, message, metrics); the worker
\* does not poll while it runs.
EngineValidate(ok) ==
    /\ wpc = "engine"
    /\ kind = "validate"
    /\ success' = ok
    /\ wpc' = "terminal"
    /\ UNCHANGED <<kind, rec, dirExists, sentinel, dispatched, cpc, wSt, ephase, tepoch,
                   stop, lastUpd, now, hpc, hOrig, lastCancel, cancels>>
    /\ UNCHANGED notJob

\* The finetune worker queries the task again after training.
WPostRead ==
    /\ wpc = "post_read"
    /\ wSt' = rec.status
    /\ wpc' = IF rec = NoRec THEN "except"
              ELSE IF rec.status = "cancelled" THEN "postcancel"
              ELSE "terminal"
    /\ UNCHANGED <<kind, rec, dirExists, sentinel, dispatched, cpc, success, ephase,
                   tepoch, stop, lastUpd, now, hpc, hOrig, lastCancel, cancels>>
    /\ UNCHANGED notJob

\* status = 'completed' (success) or 'failed' (then raise), with completed_at
WTerminalWrite ==
    /\ wpc = "terminal"
    /\ IF success
         THEN /\ rec' = IF rec = NoRec THEN rec
                        ELSE [rec EXCEPT !.status = "completed",
                                         !.completed_at = TRUE,
                                         !.error_message = "",
                                         !.metrics = "final"]
              /\ wpc' = "finally"
         ELSE /\ rec' = IF rec = NoRec THEN rec
                        ELSE [rec EXCEPT !.status = "failed",
                                         !.completed_at = TRUE,
                                         !.error_message = "engine_failed"]
              /\ wpc' = "except"
    /\ UNCHANGED <<kind, dirExists, sentinel, dispatched, cpc, wSt, success, ephase,
                   tepoch, stop, lastUpd, now, hpc, hOrig, lastCancel, cancels>>
    /\ UNCHANGED notJob

\* variant of HandlerMarksFailed for a handler that only re-raises
HandlerNeverMarks(r) == FALSE

\* "if task_db_record and task_db_record.status not in ['completed',
\* 'cancelled']" of the except clause
HandlerMarksFailed(r) ==
    r # NoRec /\ r.status \notin {"completed", "cancelled"}

\* except Exception: the status test of the handler (the attribute is read
\* from the database again after a commit)
WExceptRead ==
    /\ wpc = "except"
    /\ wSt' = rec.status
    /\ wpc' = IF HandlerMarksFailed(rec) THEN "except_write" ELSE "finally"
    /\ UNCHANGED <<kind, rec, dirExists, sentinel, dispatched, cpc, success, ephase,
                   tepoch, stop, lastUpd, now, hpc, hOrig, lastCancel, cancels>>
    /\ UNCHANGED notJob

\* except Exception: status = 'failed'; error_message = str(e); commit
WExceptWrite ==
    /\ wpc = "except_write"
    /\ rec' = IF rec = NoRec THEN rec
              ELSE [rec EXCEPT !.status = "failed", !.completed_at = TRUE,
                               !.error_message = "exception"]
    /\ wpc' = "finally"
    /\ UNCHANGED <<kind, dirExists, sentinel, dispatched, cpc, wSt, success, ephase,
                   tepoch, stop, lastUpd, now, hpc, hOrig, lastCancel, cancels>>
    /\ UNCHANGED notJob

\* except NotImplementedError / FileNotFoundError of run_validation_task:
\* status = 'failed' without a status test
WExceptNotFound ==
    /\ wpc = "except_nf"
    /\ rec' = IF rec = NoRec THEN rec
              ELSE [rec EXCEPT !.status = "failed", !.completed_at = TRUE,
                               !.error_message = "file_not_found"]
    /\ wpc' = "finally"
    /\ UNCHANGED <<kind, dirExists, sentinel, dispatched, cpc, wSt, success, ephase,
                   tepoch, stop, lastUpd, now, hpc, hOrig, lastCancel, cancels>>
    /\ UNCHANGED notJob

\* finally: remove the sentinel if it still exists
WFinally ==
    /\ wpc = "finally"
    /\ sentinel' = FALSE
    /\ wpc' = "done"
    /\ UNCHANGED <<kind, rec, dirExists, dispatched, cpc, wSt, success, ephase, tepoch,
                   stop, lastUpd, now, hpc, hOrig, lastCancel, cancels>>
    /\ UNCHANGED notJob


(***************************************************************************)
(* Training callback: FinetuneProgressCallback, driven by the model engine *)
(* inside run_yolo_training.  The engine is an external collaborator: it   *)
(* calls the registered hooks in the trainer's order and decides by itself *)
(* when a requested stop takes effect.                                     *)
(***************************************************************************)
\* _get_and_update_task + commit: the update is applied to the row whatever
\* its status is; nothing is written when the row is gone.
ApplyUpdate(r, updates) ==
    IF r = NoRec THEN r
    ELSE [f \in DOMAIN r |-> IF f \in DOMAIN updates THEN updates[f] ELSE r[f]]

\* _execute_db_update past the interval test: the update is committed, or
\* the session raises and the except clause logs the error and rolls back
\* (committed = FALSE); the method returns None in both cases
ExecuteDbUpdate(r, updates, committed) ==
    IF committed THEN ApplyUpdate(r, updates) ELSE r

\* _execute_db_update: a non-forced update is skipped inside the interval
UpdateSkipped(force, t, last) ==
    ~force /\ (t - last < db_update_interval)

\* variant of BatchUpdateSkipped for a hook that writes on every batch
BatchUpdateNeverSkipped(t, last) == FALSE

\* on_train_batch_end: the interval test of the hook, which applies once an
\* update has been written, and the one of _execute_db_update for its
\* non-forced update
BatchUpdateSkipped(t, last) ==
    \/ last # 0 /\ t - last < db_update_interval
    \/ UpdateSkipped(FALSE, t, last)

\* the update dictionary of _check_cancel_signal
CancelUpdates ==
    [status |-> "cancelled", error_message |-> "cancelled_by_signal",
     completed_at |-> TRUE]

\* on_pretrain_routine_start: the trainer is stored, the counters are reset
CbPretrainStart ==
    /\ wpc = "engine" /\ ephase = "pre_start"
    /\ lastUpd' = 0
    /\ ephase' = "pre_end"
    /\ UNCHANGED <<kind, rec, dirExists, sentinel, dispatched, cpc, wpc, wSt, success,
                   tepoch, stop, now, hpc, hOrig, lastCancel, cancels>>
    /\ UNCHANGED notJob

\* on_pretrain_routine_end: _check_cancel_signal, else total_epochs,
\* status running for a row still queued, started_at (forced update)
CbPretrainEnd(committed) ==
    /\ wpc = "engine" /\ ephase = "pre_end"
    /\ IF sentinel
         THEN /\ stop' = TRUE
              /\ rec' = ExecuteDbUpdate(rec, CancelUpdates, committed)
              /\ sentinel' = FALSE
         ELSE /\ rec' = ExecuteDbUpdate(rec,
                          IF rec.status = "queued"
                            THEN [status |-> "running", started_at |-> TRUE]
                            ELSE [started_at |-> TRUE], committed)
              /\ UNCHANGED <<stop, sentinel>>
    /\ ephase' = "epoch"
    /\ UNCHANGED <<kind, dirExists, dispatched, cpc, wpc, wSt, success, tepoch,
                   lastUpd, now, hpc, hOrig, lastCancel, cancels>>
    /\ UNCHANGED notJob

\* on_train_batch_end: _check_cancel_signal, else the interval test of the
\* hook and the non-forced update of current_epoch and metrics_json
CbTrainBatchEnd(committed) ==
    /\ wpc = "engine" /\ ephase = "epoch"
    /\ IF sentinel
         THEN /\ stop' = TRUE
              /\ rec' = ExecuteDbUpdate(rec, CancelUpdates, committed)
              /\ sentinel' = FALSE
              /\ UNCHANGED lastUpd
         ELSE /\ UNCHANGED <<stop, sentinel>>
              /\ IF BatchUpdateSkipped(now, lastUpd)
                   THEN UNCHANGED <<rec, lastUpd>>
                   ELSE /\ rec' = ExecuteDbUpdate(rec, [current_epoch |-> tepoch + 1,
                                                        metrics |-> "batch"], committed)
                        /\ lastUpd' = IF committed THEN now ELSE lastUpd
    /\ UNCHANGED <<kind, dirExists, dispatched, cpc, wpc, wSt, success, ephase, tepoch,
                   now, hpc, hOrig, lastCancel, cancels>>
    /\ UNCHANGED notJob

\* on_fit_epoch_end: _check_cancel_signal, else the forced update of
\* current_epoch and metrics_json; the trainer then moves to its next epoch
\* or, after the last one, to on_train_end.
CbFitEpochEnd(committed) ==
    /\ wpc = "engine" /\ ephase = "epoch"
    /\ IF sentinel
         THEN /\ stop' = TRUE
              /\ rec' = ExecuteDbUpdate(rec, CancelUpdates, committed)
              /\ sentinel' = FALSE
         ELSE /\ rec' = ExecuteDbUpdate(rec, [current_epoch |-> tepoch + 1,
                                              metrics |-> "epoch"], committed)
              /\ UNCHANGED <<stop, sentinel>>
    /\ IF tepoch + 1 >= MaxEpochs
         THEN /\ ephase' = "train_end"
              /\ UNCHANGED tepoch
         ELSE /\ tepoch' = tepoch + 1
              /\ UNCHANGED ephase
    /\ UNCHANGED <<kind, dirExists, dispatched, cpc, wpc, wSt, success,
                   lastUpd, now, hpc, hOrig, lastCancel, cancels>>
    /\ UNCHANGED notJob

\* The engine honours trainer.stop_training and leaves the epoch loop.
EngineStop ==
    /\ wpc = "engine" /\ ephase = "epoch"
    /\ stop
    /\ ephase' = "train_end"
    /\ UNCHANGED <<kind, rec, dirExists, sentinel, dispatched, cpc, wpc, wSt, success,
                   tepoch, stop, lastUpd, now, hpc, hOrig, lastCancel, cancels>>
    /\ UNCHANGED notJob

\* on_train_end, first half: the cancelled-by-signal test, else the query of
\* the task and the test status == 'running'; when nothing is to be written
\* the hook removes a sentinel that exists and returns.
CbTrainEndRead ==
    /\ wpc = "engine" /\ ephase = "train_end"
    /\ IF stop /\ sentinel
         THEN /\ sentinel' = FALSE
              /\ ephase' = "return"
         ELSE IF rec # NoRec /\ rec.status = "running"
         THEN /\ ephase' = "train_end_write"
              /\ UNCHANGED sentinel
         ELSE /\ sentinel' = FALSE
              /\ ephase' = "return"
    /\ UNCHANGED <<kind, rec, dirExists, dispatched, cpc, wpc, wSt, success,
                   tepoch, stop, lastUpd, now, hpc, hOrig, lastCancel, cancels>>
    /\ UNCHANGED notJob

\* on_train_end, second half: the forced update that sets completed, and the
\* finally block that removes the sentinel
CbTrainEndWrite(committed) ==
    /\ wpc = "engine" /\ ephase = "train_end_write"
    /\ rec' = ExecuteDbUpdate(rec, [status |-> "completed", completed_at |-> TRUE,
                                    error_message |-> "", current_epoch |-> MaxEpochs,
                                    metrics |-> "final"], committed)
    /\ sentinel' = FALSE
    /\ ephase' = "return"
    /\ UNCHANGED <<kind, dirExists, dispatched, cpc, wpc, wSt, success,
                   tepoch, stop, lastUpd, now, hpc, hOrig, lastCancel, cancels>>
    /\ UNCHANGED notJob

\* model.train returns and run_yolo_training looks for the output model
EngineReturn(ok) ==
    /\ wpc = "engine" /\ ephase = "return"
    /\ success' = ok
    /\ wpc' = "post_read"
    /\ ephase' = "none"
    /\ UNCHANGED <<kind, rec, dirExists, sentinel, dispatched, cpc, wSt,
                   tepoch, stop, lastUpd, now, hpc, hOrig, lastCancel, cancels>>
    /\ UNCHANGED notJob

\* YOLO(model_path) or model.train raises: run_yolo_training returns
\* (False, message, {}) and on_train_end is not called
EngineRaise ==
    /\ wpc = "engine" /\ ephase \in {"pre_start", "pre_end", "epoch", "train_end"}
    /\ success' = FALSE
    /\ wpc' = "post_read"
    /\ ephase' = "none"
    /\ UNCHANGED <<kind, rec, dirExists, sentinel, dispatched, cpc, wSt,
                   tepoch, stop, lastUpd, now, hpc, hOrig, lastCancel, cancels>>
    /\ UNCHANGED notJob

\* time passes while the trainer runs its batches (time.time() is read only
\* by the batch hook)
Tick ==
    /\ wpc = "engine" /\ ephase = "epoch"
    /\ now < db_update_interval + TimeSpan
    /\ now' = now + 1
    /\ UNCHANGED <<kind, rec, dirExists, sentinel, dispatched, cpc, wpc, wSt, success,
                   ephase, tepoch, stop, lastUpd, hpc, hOrig, lastCancel, cancels>>
    /\ UNCHANGED notJob

(***************************************************************************)
(* The job registry with its two processes                                 *)
(***************************************************************************)
JobNext ==
    \/ \E k \in Kinds, inputsOk \in BOOLEAN, prepOk \in BOOLEAN :
          CreateInsert(k, inputsOk, prepOk)
    \/ \E sendOk \in BOOLEAN : CreateDispatch(sendOk)
    \/ CancelRead(Owner)
    \/ CancelCommit
    \/ WLoad
    \/ WCancelledCleanup
    \/ WStartCommit
    \/ WSentinelCheck
    \/ \E outcome \in {"ok", "value_error", "not_found"} : WPrep(outcome)
    \/ \E ok \in BOOLEAN : EngineValidate(ok)
    \/ WPostRead
    \/ WTerminalWrite
    \/ WExceptRead
    \/ WExceptWrite
    \/ WExceptNotFound
    \/ WFinally
    \/ CbPretrainStart
    \/ \E committed \in BOOLEAN : CbPretrainEnd(committed)
    \/ \E committed \in BOOLEAN : CbTrainBatchEnd(committed)
    \/ \E committed \in BOOLEAN : CbFitEpochEnd(committed)
    \/ EngineStop
    \/ CbTrainEndRead
    \/ \E committed \in BOOLEAN : CbTrainEndWrite(committed)
    \/ \E ok \in BOOLEAN : EngineReturn(ok)
    \/ EngineRaise
    \/ Tick


(***************************************************************************)
(* Session entries of UserSessionManager (used by the cache requests too)  *)
(***************************************************************************)
\* an absent key of _user_data
NoData == [present |-> FALSE, files |-> {}, result |-> FALSE,
           selected_model |-> FALSE, config |-> FALSE, timestamp |-> 0]

\* _ensure_user_entry
EnsureUserEntry(d, t) ==
    IF d.present THEN d
    ELSE [present |-> TRUE, files |-> {}, result |-> FALSE,
          selected_model |-> FALSE, config |-> FALSE, timestamp |-> t]

\* the files one call of store_uploaded_files saves: every name gets a fresh
\* uuid4 prefix, so the files of a call are told from those of any other call
\* by the call (w) that saved them
Saved(w) == {<<w, f>> : f \in Files}

\* the expiry test of _cleanup_check
Expired(d, t) == d.present /\ t - d.timestamp > max_age_seconds

(***************************************************************************)
(* Model cache of InferenceService                                         *)
(***************************************************************************)
NoEntry == [model_name |-> "", status |-> "absent", model_instance |-> 0,
            load_thread |-> 0, error_message |-> 0]
NoTime == -1
NoModel == ""

\* A user's lock is free or held by the user's request thread; the loader
\* threads and the sweeper take it for one step.
FreeLock == "free"
ReqHolder == "request"

NoLoader == [user |-> "", model |-> "", phase |-> "unused"]
\* a loader thread that has returned
DoneLoader == [user |-> "", model |-> "", phase |-> "done"]

CacheInit ==
    /\ user_loaded_models = [u \in Users |-> NoEntry]
    /\ last_access = [u \in Users |-> NoTime]
    /\ ulock = [u \in Users |-> FreeLock]
    /\ modelFiles = [u \in Users |-> Models]
    /\ selected = [u \in Users |-> NoModel]
    /\ rpc = [u \in Users |-> "idle"]
    /\ rarg = [u \in Users |-> NoModel]
    /\ loaders = [g \in 1..MaxLoads |-> NoLoader]
    /\ spc = "sleep"
    /\ sNow = 0
    /\ sList = {}

ClockInit ==
    /\ tclock = model_max_idle_time_seconds + 1
    /\ ticks = 0

\* variant of LoadingEntry that stores a handle in the loading entry
LoadingEntryWithHandle(m, g) ==
    [model_name |-> m, status |-> "loading", model_instance |-> g,
     load_thread |-> g, error_message |-> 0]

\* variant of LoadingEntry that stores the entry with the status of a failed load
LoadingEntryError(m, g) ==
    [model_name |-> m, status |-> "error", model_instance |-> 0,
     load_thread |-> g, error_message |-> 0]

\* the entry load_model stores: status loading, no instance, the new thread
LoadingEntry(m, g) ==
    [model_name |-> m, status |-> "loading", model_instance |-> 0,
     load_thread |-> g, error_message |-> 0]

\* variant of EjectEntries that leaves the entry in place
EjectEntriesKept(cache, u, info) == cache

\* _eject_model_internal: the key is deleted when the stored entry has the
\* name of the entry to eject
EjectEntries(cache, u, info) ==
    IF cache[u] # NoEntry /\ cache[u].model_name = info.model_name
      THEN [cache EXCEPT ![u] = NoEntry]
      ELSE cache

\* _eject_model_internal: the last-access time stamp of the user is deleted
EjectLastAccess(la, u) == [la EXCEPT ![u] = NoTime]

\* the test of _load_model_task before it applies its outcome
LoaderMayApply(info, model) ==
    info # NoEntry /\ info.model_name = model /\ info.status = "loading"

\* first unused loader thread id (0 when the bound is reached)
FreshLoader ==
    IF \E g \in 1..MaxLoads : loaders[g].phase = "unused"
      THEN CHOOSE g \in 1..MaxLoads :
              /\ loaders[g].phase = "unused"
              /\ \A h \in 1..MaxLoads : loaders[h].phase = "unused" => g <= h
      ELSE 0

\* ---- request threads ----
\* Every request runs under the user's lock.  load_model is two steps, so
\* that the sweeper's scan (which does not take the user's lock) can fall
\* between the eviction of the old entry and the creation of the new one.
\* The requests call the session store while they hold the user's lock
\* (set_selected_model, clear_selected_model, get_selected_model).  A call
\* into a store whose lock is held for ever never returns: the request stays
\* where it is ("blocked") with the user's lock held.

\* set_selected_model under the store lock
SetSelected(d, t) ==
    [EnsureUserEntry(d, t) EXCEPT !.selected_model = TRUE, !.timestamp = t]

\* clear_selected_model under the store lock
ClearSelected(d, t) ==
    IF d.present THEN [d EXCEPT !.selected_model = FALSE, !.timestamp = t] ELSE d

\* load_model up to the point where a new load is due: the file test, the
\* answers for an entry of the same model, the eviction of another model
LoadCheck(u, m) ==
    /\ rpc[u] = "idle"
    /\ ulock[u] = FreeLock
    /\ FreshLoader # 0
    /\ LET cur == user_loaded_models[u]
       IN IF m \notin modelFiles[u]
            THEN \* FileNotFoundError
                 UNCHANGED <<user_loaded_models, last_access, selected, rpc, rarg, ulock,
                             user_data>>
          ELSE IF cur # NoEntry /\ cur.model_name = m /\ cur.status = "loaded"
            THEN IF slock = "free"
                   THEN /\ selected' = [selected EXCEPT ![u] = m]
                        /\ user_data' = [user_data EXCEPT ![u] = SetSelected(@, tclock)]
                        /\ last_access' = [last_access EXCEPT ![u] = tclock]
                        /\ UNCHANGED <<user_loaded_models, rpc, rarg, ulock>>
                   ELSE /\ rpc' = [rpc EXCEPT ![u] = "blocked"]
                        /\ ulock' = [ulock EXCEPT ![u] = ReqHolder]
                        /\ UNCHANGED <<user_loaded_models, last_access, selected, rarg,
                                       user_data>>
          ELSE IF cur # NoEntry /\ cur.model_name = m /\ cur.status = "loading"
            THEN UNCHANGED <<user_loaded_models, last_access, selected, rpc, rarg, ulock,
                             user_data>>
          ELSE /\ IF cur # NoEntry /\ cur.model_name # m
                    THEN /\ user_loaded_models' = EjectEntries(user_loaded_models, u, cur)
                         /\ last_access' = EjectLastAccess(last_access, u)
                    ELSE UNCHANGED <<user_loaded_models, last_access>>
               /\ ulock' = [ulock EXCEPT ![u] = ReqHolder]
               /\ rpc' = [rpc EXCEPT ![u] = "load_start"]
               /\ rarg' = [rarg EXCEPT ![u] = m]
               /\ UNCHANGED <<selected, user_data>>
    /\ UNCHANGED <<modelFiles, loaders, spc, sNow, sList>>
    /\ UNCHANGED <<jobVars, queueVars, stopVars, ownerVars, clockVars, inferVars, disk, slock, tpc, tcall, tret, cleanup>>

\* load_model: the loading entry is stored, the loader thread is started,
\* the model is recorded as selected and the lock is released
LoadStart(u) ==
    /\ rpc[u] = "load_start"
    /\ LET g == FreshLoader
       IN /\ g # 0
          /\ user_loaded_models' = [user_loaded_models EXCEPT ![u] = LoadingEntry(rarg[u], g)]
          /\ loaders' = [loaders EXCEPT ![g] = [user |-> u, model |-> rarg[u],
                                                 phase |-> "running"]]
    /\ IF slock = "free"
         THEN /\ selected' = [selected EXCEPT ![u] = rarg[u]]
              /\ user_data' = [user_data EXCEPT ![u] = SetSelected(@, tclock)]
              /\ rpc' = [rpc EXCEPT ![u] = "idle"]
              /\ ulock' = [ulock EXCEPT ![u] = FreeLock]
         ELSE /\ rpc' = [rpc EXCEPT ![u] = "blocked"]
              /\ UNCHANGED <<selected, user_data, ulock>>
    /\ rarg' = [rarg EXCEPT ![u] = NoModel]
    /\ UNCHANGED <<last_access, modelFiles, spc, sNow, sList>>
    /\ UNCHANGED <<jobVars, queueVars, stopVars, ownerVars, clockVars, inferVars, disk, slock, tpc, tcall, tret, cleanup>>

\* eject_model: with an entry, _eject_model_internal and then
\* clear_selected_model; without one, clear_selected_model and then the
\* removal of a time stamp that is left
EjectModel(u) ==
    /\ rpc[u] = "idle"
    /\ ulock[u] = FreeLock
    /\ LET cur == user_loaded_models[u]
       IN /\ user_loaded_models' = IF cur = NoEntry THEN user_loaded_models
                                   ELSE EjectEntries(user_loaded_models, u, cur)
          /\ last_access' = IF cur = NoEntry /\ slock # "free" THEN last_access
                            ELSE EjectLastAccess(last_access, u)
    /\ IF slock = "free"
         THEN /\ selected' = [selected EXCEPT ![u] = NoModel]
              /\ user_data' = [user_data EXCEPT ![u] = ClearSelected(@, tclock)]
              /\ UNCHANGED <<rpc, ulock>>
         ELSE /\ rpc' = [rpc EXCEPT ![u] = "blocked"]
              /\ ulock' = [ulock EXCEPT ![u] = ReqHolder]
              /\ UNCHANGED <<selected, user_data>>
    /\ UNCHANGED <<rarg, modelFiles, loaders, spc, sNow, sList>>
    /\ UNCHANGED <<jobVars, queueVars, stopVars, ownerVars, clockVars, inferVars, disk, slock, tpc, tcall, tret, cleanup>>

\* get_selected_model as the requests below call it: _cleanup_check finds
\* the store lock held for ever ("blocked"), or takes it, finds the session
\* expired and calls clear_files, which removes the upload directory and asks
\* for the lock its caller holds ("expired"), or lets the getter return ("ok")
GetSelectedOutcome(u) ==
    IF slock # "free" THEN "blocked"
    ELSE IF Expired(user_data[u], tclock) THEN "expired"
    ELSE "ok"

\* names that _get_safe_model_path refuses: the empty name and names with
\* "..", "/" or "\"
InvalidNames == {"", "../A"}
ModelNames == Models \cup InvalidNames

\* the exception delete_model raises before it changes anything ("none": the
\* name is a file of the user's model directory)
DeleteError(files, name) ==
    IF name \in InvalidNames THEN "ValueError"
    ELSE IF name \notin files THEN "FileNotFoundError"
    ELSE "none"

WasActiveNever(info, m) == FALSE

\* delete_model: the entry is the current entry of the model to delete
WasActiveModel(info, m) == info # NoEntry /\ info.model_name = m

\* delete_model: the name is checked; the active entry of that model is
\* ejected, the file is removed, the selection is read and cleared when it
\* names the model
DeleteModel(u, m) ==
    /\ rpc[u] = "idle"
    /\ ulock[u] = FreeLock
    /\ IF DeleteError(modelFiles[u], m) # "none"
         THEN UNCHANGED <<user_loaded_models, last_access, modelFiles, selected,
                          user_data, rpc, ulock, slock, disk>>
         ELSE /\ LET cur == user_loaded_models[u]
                 IN IF WasActiveModel(cur, m)
                      THEN /\ user_loaded_models' = EjectEntries(user_loaded_models, u, cur)
                           /\ last_access' = EjectLastAccess(last_access, u)
                      ELSE UNCHANGED <<user_loaded_models, last_access>>
              /\ modelFiles' = [modelFiles EXCEPT ![u] = @ \ {m}]
              /\ IF GetSelectedOutcome(u) = "ok"
                   THEN /\ selected' = IF selected[u] = m
                                         THEN [selected EXCEPT ![u] = NoModel]
                                         ELSE selected
                        /\ user_data' = IF selected[u] = m
                                          THEN [user_data EXCEPT ![u] = ClearSelected(@, tclock)]
                                          ELSE user_data
                        /\ UNCHANGED <<rpc, ulock, slock, disk>>
                   ELSE /\ rpc' = [rpc EXCEPT ![u] = "blocked"]
                        /\ ulock' = [ulock EXCEPT ![u] = ReqHolder]
                        /\ slock' = IF GetSelectedOutcome(u) = "expired" THEN u ELSE slock
                        /\ disk' = IF GetSelectedOutcome(u) = "expired"
                                     THEN [disk EXCEPT ![u] = {}] ELSE disk
                        /\ UNCHANGED <<selected, user_data>>
    /\ UNCHANGED <<rarg, loaders, spc, sNow, sList>>
    /\ UNCHANGED <<jobVars, queueVars, stopVars, ownerVars, clockVars, inferVars, tpc, tcall, tret, cleanup>>

\* the outcome of the readiness check of start_inference for an entry
ReadyOutcome(info) ==
    IF info = NoEntry THEN "ValueError"
    ELSE IF info.status = "loading" THEN "RuntimeError_loading"
    ELSE IF info.status = "error" THEN "RuntimeError_failed"
    ELSE IF info.model_instance = 0 THEN "RuntimeError_no_instance"
    ELSE "handle"

\* upload_picture: store_uploaded_files empties the user's directory, saves
\* the files and records them in the user's session entry
UploadPicture(u) ==
    /\ rpc[u] = "idle"
    /\ disk' = [disk EXCEPT ![u] = Saved(ReqHolder)]
    /\ IF slock = "free"
         THEN /\ user_data' = [user_data EXCEPT ![u] =
                     [EnsureUserEntry(@, tclock) EXCEPT !.files = Saved(ReqHolder),
                                                        !.timestamp = tclock]]
              /\ UNCHANGED rpc
         ELSE /\ rpc' = [rpc EXCEPT ![u] = "blocked"]
              /\ UNCHANGED user_data
    /\ UNCHANGED <<user_loaded_models, last_access, ulock, modelFiles, selected,
                   rarg, loaders, spc, sNow, sList, slock>>
    /\ UNCHANGED <<jobVars, queueVars, stopVars, ownerVars, clockVars, inferVars, tpc, tcall, tret, cleanup>>

\* get_uploaded_files at the head of start_inference
GetFilesOutcome(u) ==
    IF slock # "free" THEN "blocked"
    ELSE IF Expired(user_data[u], tclock) THEN "expired"
    ELSE IF user_data[u].files = {} THEN "ValueError"
    ELSE "ok"

\* the exception class the readiness check ends with ("none": no exception)
ReadyException(info) ==
    IF ReadyOutcome(info) = "handle" THEN "none"
    ELSE IF ReadyOutcome(info) = "ValueError" THEN "ValueError"
    ELSE "RuntimeError"

\* handle_command: the status code for the exception class a command ended
\* with ("none": the command returned its own 200 answer)
HandleCommandStatus(exc) ==
    CASE exc = "none" -> 200
      [] exc = "FileNotFoundError" -> 404
      [] exc = "PermissionError" -> 403
      [] exc = "ValueError" -> 400
      [] exc = "RuntimeError" -> 500
      [] OTHER -> 500

\* ---- inference ----
\* uploaded_files_info is a list: the futures are made and awaited in its order
FileOrder == <<"f1", "f2">>
Images == 1..Len(FileOrder)

\* a future is PENDING, RUNNING, CANCELLED or FINISHED; a finished future
\* holds a success payload ("result"), a failure payload ("failure") or an
\* exception ("exception"); "none": no future, or one that start_inference
\* has let go of (its value was taken, or the command has ended)
NoFutures == [i \in Images |-> "none"]
NoResp == [status |-> 0, why |-> "none"]
\* the pool's work queue and worker threads hold the tasks of a command that
\* has ended as well: their number is all the pool needs of them
NoTasks == [queued |-> 0, running |-> 0]

InferInit ==
    /\ fut = [u \in Users |-> NoFutures]
    /\ ipos = [u \in Users |-> 0]
    /\ starts = 0
    /\ cancelReq = [u \in Users |-> {}]
    /\ abandoned = NoTasks
    /\ instance = [u \in Users |-> 0]
    /\ resp = [u \in Users |-> NoResp]

\* Future.done()
FutureDone(st) == st \in {"cancelled", "result", "failure", "exception"}

\* why the readiness check failed
ReadyWhy(info) ==
    IF ReadyOutcome(info) = "ValueError" THEN "no_entry"
    ELSE IF ReadyOutcome(info) = "RuntimeError_loading" THEN "loading"
    ELSE IF ReadyOutcome(info) = "RuntimeError_failed" THEN "load_failed"
    ELSE "no_instance"

\* start_inference up to the submission of the images: the uploaded files are
\* read from the session store (an expired session makes _cleanup_check wait
\* for the store lock it holds), then the readiness check runs under the
\* user's lock; a handle is handed out and the time stamp refreshed only for
\* a loaded entry, and one future per image is submitted.  An exception ends
\* the command with the answer of handle_command.
StartInference(u) ==
    /\ rpc[u] = "idle"
    /\ starts < MaxStarts
    /\ starts' = starts + 1
    /\ cancelReq' = [cancelReq EXCEPT ![u] = {}]
    /\ UNCHANGED <<ipos, abandoned>>
    /\ IF GetFilesOutcome(u) \in {"blocked", "expired"}
         THEN /\ rpc' = [rpc EXCEPT ![u] = "blocked"]
              /\ slock' = IF GetFilesOutcome(u) = "expired" THEN u ELSE slock
              /\ disk' = IF GetFilesOutcome(u) = "expired"
                           THEN [disk EXCEPT ![u] = {}] ELSE disk
              /\ resp' = [resp EXCEPT ![u] = NoResp]
              /\ UNCHANGED <<last_access, fut, instance>>
         ELSE IF GetFilesOutcome(u) = "ValueError"
         THEN /\ resp' = [resp EXCEPT ![u] =
                     [status |-> HandleCommandStatus("ValueError"), why |-> "no_files"]]
              /\ UNCHANGED <<rpc, slock, disk, last_access, fut, instance>>
         ELSE /\ ulock[u] = FreeLock
              /\ IF ReadyOutcome(user_loaded_models[u]) = "handle"
                   THEN /\ last_access' = [last_access EXCEPT ![u] = tclock]
                        /\ fut' = [fut EXCEPT ![u] = [i \in Images |-> "pending"]]
                        /\ instance' = [instance EXCEPT ![u] =
                                           user_loaded_models[u].model_instance]
                        /\ rpc' = [rpc EXCEPT ![u] = "await"]
                        /\ resp' = [resp EXCEPT ![u] = NoResp]
                   ELSE /\ resp' = [resp EXCEPT ![u] =
                               [status |-> HandleCommandStatus(
                                              ReadyException(user_loaded_models[u])),
                                why |-> ReadyWhy(user_loaded_models[u])]]
                        /\ UNCHANGED <<last_access, fut, rpc, instance>>
              /\ UNCHANGED <<slock, disk>>
    /\ UNCHANGED <<user_loaded_models, ulock, rarg, modelFiles, selected, loaders,
                   spc, sNow, sList, user_data>>
    /\ UNCHANGED <<jobVars, queueVars, stopVars, ownerVars, clockVars, tpc, tcall, tret, cleanup>>

\* a worker thread of the pool is started by ThreadPoolExecutor.submit: no
\* application context is pushed in it, so "current_app" is unbound there
PoolThreadHasAppContext == FALSE

\* what the engine does with an image: it returns detections, the image file
\* is gone, or self.model.predict raises
EngineOutcomes == {"detections", "missing_image", "raises"}

\* YoloModel.predict: log_func is current_app.logger.info with an application
\* context and print without one; the except clause around self.model.predict
\* calls log_func(..., exc_info=True), which print rejects with a TypeError
PredictOutcome(engine, ctx) ==
    IF engine = "missing_image" THEN "failure"
    ELSE IF engine = "detections" THEN "result"
    ELSE IF ctx THEN "failure" ELSE "raise"

\* _run_inference_task: the value of predict is returned; an exception of
\* predict is logged with logger.error and turned into the failure payload,
\* but logger is print without an application context and print.error raises
\* AttributeError, which leaves the task as the future's exception
RunInferenceTask(engine, ctx) ==
    IF PredictOutcome(engine, ctx) # "raise" THEN PredictOutcome(engine, ctx)
    ELSE IF ctx THEN "failure" ELSE "exception"

\* the futures of u's command in state st
InState(u, st) == {i \in Images : fut[u][i] = st}

RECURSIVE SumOver(_, _)
SumOver(S, st) ==
    IF S = {} THEN 0
    ELSE LET u == CHOOSE x \in S : TRUE
         IN Cardinality(InState(u, st)) + SumOver(S \ {u}, st)

\* worker threads that execute a task
Busy == SumOver(Users, "running") + abandoned.running

\* work items waiting in the pool's queue
Queued == SumOver(Users, "pending") + abandoned.queued

\* variant of WorkerFree for a pool that starts a thread for every task
WorkerAlwaysFree == TRUE

\* ThreadPoolExecutor: a work item is taken from the queue by a worker thread
\* that has no task, and the pool has at most max_workers threads
WorkerFree == Busy < max_workers

\* a worker of the pool takes a pending future
PoolStart(u, i) ==
    /\ fut[u][i] = "pending"
    /\ WorkerFree
    /\ fut' = [fut EXCEPT ![u][i] = "running"]
    /\ UNCHANGED <<ipos, starts, cancelReq, abandoned, instance, resp>>
    /\ UNCHANGED <<jobVars, queueVars, stopVars, ownerVars, clockVars, cacheVars, sessionVars>>

\* the worker's task ends and completes the future
PoolFinish(u, i, engine) ==
    /\ fut[u][i] = "running"
    /\ fut' = [fut EXCEPT ![u][i] = RunInferenceTask(engine, PoolThreadHasAppContext)]
    /\ UNCHANGED <<ipos, starts, cancelReq, abandoned, instance, resp>>
    /\ UNCHANGED <<jobVars, queueVars, stopVars, ownerVars, clockVars, cacheVars, sessionVars>>

\* a worker takes the task of a command that has ended
AbandonedStart ==
    /\ abandoned.queued > 0
    /\ WorkerFree
    /\ abandoned' = [queued |-> abandoned.queued - 1,
                     running |-> abandoned.running + 1]
    /\ UNCHANGED <<fut, ipos, starts, cancelReq, instance, resp>>
    /\ UNCHANGED <<jobVars, queueVars, stopVars, ownerVars, clockVars, cacheVars, sessionVars>>

\* the task of a command that has ended returns: nobody reads its future
AbandonedFinish ==
    /\ abandoned.running > 0
    /\ abandoned' = [abandoned EXCEPT !.running = @ - 1]
    /\ UNCHANGED <<fut, ipos, starts, cancelReq, instance, resp>>
    /\ UNCHANGED <<jobVars, queueVars, stopVars, ownerVars, clockVars, cacheVars, sessionVars>>

\* future.result(timeout=...) returns or raises the future's outcome.  The
\* value of the next future is taken; after the last one store_result puts
\* the results into the session and the command answers 200.  An exception
\* of the future is re-raised as RuntimeError.
AwaitResult(u) ==
    /\ rpc[u] = "await"
    /\ LET i == ipos[u] + 1
       IN /\ fut[u][i] \in {"result", "failure", "exception"}
          /\ IF fut[u][i] = "exception"
               THEN /\ resp' = [resp EXCEPT ![u] =
                           [status |-> HandleCommandStatus("RuntimeError"),
                            why |-> "result_error"]]
                    /\ rpc' = [rpc EXCEPT ![u] = "idle"]
                    /\ fut' = [fut EXCEPT ![u] = NoFutures]
                    /\ ipos' = [ipos EXCEPT ![u] = 0]
                    /\ abandoned' =
                         [queued |-> abandoned.queued
                                       + Cardinality(InState(u, "pending")),
                          running |-> abandoned.running
                                       + Cardinality(InState(u, "running"))]
                    /\ instance' = [instance EXCEPT ![u] = 0]
                    /\ UNCHANGED user_data
               ELSE IF i < Len(FileOrder)
               THEN /\ ipos' = [ipos EXCEPT ![u] = i]
                    /\ fut' = [fut EXCEPT ![u][i] = "none"]
                    /\ UNCHANGED <<rpc, resp, user_data, abandoned, instance>>
               ELSE /\ fut' = [fut EXCEPT ![u] = NoFutures]
                    /\ ipos' = [ipos EXCEPT ![u] = 0]
                    /\ instance' = [instance EXCEPT ![u] = 0]
                    /\ UNCHANGED abandoned
                    /\ IF slock = "free"
                         THEN /\ user_data' = [user_data EXCEPT ![u] =
                                     [EnsureUserEntry(@, tclock)
                                        EXCEPT !.result = TRUE, !.timestamp = tclock]]
                              /\ resp' = [resp EXCEPT ![u] =
                                          [status |-> 200, why |-> "done"]]
                              /\ rpc' = [rpc EXCEPT ![u] = "idle"]
                         ELSE /\ rpc' = [rpc EXCEPT ![u] = "blocked"]
                              /\ UNCHANGED <<resp, user_data>>
    /\ UNCHANGED <<cancelReq, starts>>
    /\ UNCHANGED <<user_loaded_models, last_access, ulock, modelFiles, selected, rarg,
                   loaders, spc, sNow, sList, disk, slock>>
    /\ UNCHANGED <<jobVars, queueVars, stopVars, ownerVars, clockVars, tpc, tcall, tret, cleanup>>

\* variant of WaitTimesOut for a wait without a timeout
WaitNeverTimesOut(st) == FALSE

\* future.result(timeout=timeout_seconds) raises TimeoutError when the future
\* is not finished at the end of the wait
WaitTimesOut(st) == st \in {"pending", "running"}

\* the TimeoutError clause: cancel() on every future that is not done, then
\* RuntimeError; the futures are let go of with the command's end.  cancel()
\* takes a pending future out of the pool's work; a running task goes on
AwaitTimeout(u) ==
    /\ rpc[u] = "await"
    /\ WaitTimesOut(fut[u][ipos[u] + 1])
    /\ cancelReq' = [cancelReq EXCEPT ![u] =
                       {j \in Images : fut[u][j] # "none" /\ ~FutureDone(fut[u][j])}]
    /\ fut' = [fut EXCEPT ![u] = NoFutures]
    /\ abandoned' = [abandoned EXCEPT
                       !.running = @ + Cardinality(InState(u, "running"))]
    /\ instance' = [instance EXCEPT ![u] = 0]
    /\ ipos' = [ipos EXCEPT ![u] = 0]
    /\ resp' = [resp EXCEPT ![u] =
                  [status |-> HandleCommandStatus("RuntimeError"), why |-> "timeout"]]
    /\ rpc' = [rpc EXCEPT ![u] = "idle"]
    /\ UNCHANGED starts
    /\ UNCHANGED <<user_loaded_models, last_access, ulock, modelFiles, selected, rarg,
                   loaders, spc, sNow, sList>>
    /\ UNCHANGED <<jobVars, queueVars, stopVars, ownerVars, clockVars, sessionVars>>

\* ---- loader threads ----
\* _load_model_task: YoloModel(model_path) returns a handle (ok) or raises;
\* under the user's lock the outcome is applied when the user's entry has
\* the thread's model name and status loading, and dropped otherwise.  The
\* handle and the error carry the id of the thread that produced them.
LoadModelTask(g, ok) ==
    /\ loaders[g].phase = "running"
    /\ LET u == loaders[g].user
           cur == user_loaded_models[u]
       IN /\ ulock[u] = FreeLock
          /\ IF LoaderMayApply(cur, loaders[g].model)
               THEN IF ok
                      THEN /\ user_loaded_models' =
                                [user_loaded_models EXCEPT ![u] =
                                    [cur EXCEPT !.model_instance = g, !.status = "loaded",
                                                !.load_thread = 0, !.error_message = 0]]
                           /\ last_access' = [last_access EXCEPT ![u] = tclock]
                      ELSE /\ user_loaded_models' =
                                [user_loaded_models EXCEPT ![u] =
                                    [cur EXCEPT !.status = "error", !.error_message = g,
                                                !.load_thread = 0, !.model_instance = 0]]
                           /\ UNCHANGED last_access
               ELSE UNCHANGED <<user_loaded_models, last_access>>
    /\ loaders' = [loaders EXCEPT ![g] = DoneLoader]
    /\ UNCHANGED <<ulock, modelFiles, selected, rpc, rarg, spc, sNow, sList>>
    /\ UNCHANGED notCache

\* ---- idle sweeper ----
\* users whose copied time stamp is older than the threshold; a user without
\* a time stamp is skipped
UsersToEject(cache, la, t) ==
    {u \in Users : cache[u] # NoEntry /\ la[u] # NoTime
                   /\ t - la[u] > model_max_idle_time_seconds}

\* _model_cleanup_task: the loop test finds the stop event clear, now is read
\* and users_to_eject is computed from the copies taken under the main lock
SweepScan ==
    /\ spc = "sleep"
    /\ ~stop_cleanup_event
    /\ sNow' = IF UsersToEject(user_loaded_models, last_access, tclock) = {}
                 THEN 0 ELSE tclock
    /\ sList' = UsersToEject(user_loaded_models, last_access, tclock)
    /\ spc' = IF UsersToEject(user_loaded_models, last_access, tclock) = {}
                THEN "sleep" ELSE "eject"
    /\ UNCHANGED <<user_loaded_models, last_access, ulock, modelFiles, selected, rpc,
                   rarg, loaders>>
    /\ UNCHANGED notCache

\* self._user_model_last_access.get(user_id_to_eject, 0)
CurrentLastAccess(la, u) == IF la[u] = NoTime THEN 0 ELSE la[u]

\* the test repeated under the user's lock, with the now of the scan
SweepStillIdle(cache, la, u, t) ==
    /\ cache[u] # NoEntry
    /\ t - CurrentLastAccess(la, u) > model_max_idle_time_seconds

\* _model_cleanup_task: one user of users_to_eject is visited under its lock
SweepEject(u) ==
    /\ spc = "eject"
    /\ u \in sList
    /\ ulock[u] = FreeLock
    /\ IF SweepStillIdle(user_loaded_models, last_access, u, sNow)
         THEN /\ user_loaded_models' =
                    EjectEntries(user_loaded_models, u, user_loaded_models[u])
              /\ last_access' = EjectLastAccess(last_access, u)
         ELSE UNCHANGED <<user_loaded_models, last_access>>
    /\ sList' = sList \ {u}
    /\ spc' = IF sList \ {u} = {} THEN "sleep" ELSE "eject"
    /\ sNow' = IF sList \ {u} = {} THEN 0 ELSE sNow
    /\ UNCHANGED <<ulock, modelFiles, selected, rpc, rarg, loaders>>
    /\ UNCHANGED notCache

\* ---- shutdown_service ----
StopInit ==
    /\ stop_cleanup_event = FALSE
    /\ shpc = "idle"

\* _model_cleanup_task: the wait on the event ends, the loop test finds the
\* event set and the thread ends
SweepExit ==
    /\ spc = "sleep"
    /\ stop_cleanup_event
    /\ spc' = "stopped"
    /\ UNCHANGED <<user_loaded_models, last_access, ulock, modelFiles, selected, rpc,
                   rarg, loaders, sNow, sList>>
    /\ UNCHANGED notCache

\* shutdown_service: the event is set, and the thread is joined when it is
\* alive
ShutdownSet ==
    /\ shpc = "idle"
    /\ stop_cleanup_event' = TRUE
    /\ shpc' = IF spc # "stopped" THEN "join" ELSE "returned"
    /\ UNCHANGED <<jobVars, queueVars, ownerVars, clockVars, cacheVars, sessionVars, inferVars>>

\* Thread.join(timeout=_cleanup_interval_seconds + 5) returns when the thread
\* has ended or when the timeout has passed
JoinReturns(alive, timedOut) == ~alive \/ timedOut

\* shutdown_service: the join returns and the method logs and returns
ShutdownJoin(timedOut) ==
    /\ shpc = "join"
    /\ JoinReturns(spc # "stopped", timedOut)
    /\ shpc' = "returned"
    /\ UNCHANGED stop_cleanup_event
    /\ UNCHANGED <<jobVars, queueVars, ownerVars, clockVars, cacheVars, sessionVars, inferVars>>

\* ---- the clock of the serving process ----
ClockTick(d) ==
    /\ ticks < MaxTicks
    /\ tclock' = tclock + d
    /\ ticks' = ticks + 1
    /\ UNCHANGED <<jobVars, queueVars, stopVars, ownerVars, cacheVars, sessionVars, inferVars>>

\* the clock advances by more than the idle threshold
Steps == {model_max_idle_time_seconds + 1}

CacheNext ==
    \/ \E u \in Users, m \in Models : LoadCheck(u, m)
    \/ \E u \in Users : LoadStart(u)
    \/ \E u \in Users : EjectModel(u)
    \/ \E u \in Users, m \in ModelNames : DeleteModel(u, m)
    \/ \E g \in 1..MaxLoads, ok \in BOOLEAN : LoadModelTask(g, ok)
    \/ SweepScan
    \/ \E u \in Users : SweepEject(u)
    \/ \E d \in Steps : ClockTick(d)

\* the Start command with the commands it depends on (a picture upload and
\* a model load) and the worker pool
InferNext ==
    \/ \E u \in Users : UploadPicture(u)
    \/ \E u \in Users, m \in Models : LoadCheck(u, m)
    \/ \E u \in Users : LoadStart(u)
    \/ \E g \in 1..MaxLoads, ok \in BOOLEAN : LoadModelTask(g, ok)
    \/ \E u \in Users : StartInference(u)
    \/ \E u \in Users, i \in Images : PoolStart(u, i)
    \/ \E u \in Users, i \in Images, e \in EngineOutcomes : PoolFinish(u, i, e)
    \/ AbandonedStart
    \/ AbandonedFinish
    \/ \E u \in Users : AwaitResult(u)
    \/ \E u \in Users : AwaitTimeout(u)
    \/ \E d \in Steps : ClockTick(d)


(***************************************************************************)
(* Queue position (FinetuneService / ValidateService .get_task_details)    *)
(***************************************************************************)
\* ids are uuid4 strings: their order has nothing to do with the order of
\* creation
TaskIds == 1..MaxTasks
NoTask == [status |-> "absent", created_at |-> 0]
NoPosition == [position |-> 0, total |-> 0]

QueueInit ==
    /\ tasks = [j \in TaskIds |-> NoTask]
    /\ details = [j \in TaskIds |-> NoPosition]

\* the rows the query selects: status = 'queued'
QueuedTasks(tb) == {j \in TaskIds : tb[j].status = "queued"}

\* .filter(status == 'queued').order_by(created_at.asc()).all(): the rows in
\* ascending created_at; the statement names no second sort key, so rows of
\* equal created_at come in any order
QueryResults(tb) ==
    LET Q == QueuedTasks(tb)
    IN {s \in [1..Cardinality(Q) -> Q] :
          /\ \A a, b \in 1..Cardinality(Q) : a # b => s[a] # s[b]
          /\ \A a, b \in 1..Cardinality(Q) :
                a < b => tb[s[a]].created_at <= tb[s[b]].created_at}

\* the loop over the rows: i + 1 for the row whose id is task_id
PositionIn(s, j) == CHOOSE i \in 1..Len(s) : s[i] = j

\* create_task: a row with a new uuid4 id and created_at = utcnow(), then
\* status queued; the clock does not go back
CreateTask(j, ts) ==
    /\ tasks[j].status = "absent"
    /\ ts \in 1..MaxStamp
    /\ \A k \in TaskIds : tasks[k].created_at <= ts
    /\ tasks' = [tasks EXCEPT ![j] = [status |-> "queued", created_at |-> ts]]
    /\ UNCHANGED details
    /\ UNCHANGED notQueue

\* the worker takes a queued task: it leaves the queue
TaskStarts(j) ==
    /\ tasks[j].status = "queued"
    /\ tasks' = [tasks EXCEPT ![j].status = "running"]
    /\ details' = [details EXCEPT ![j] = NoPosition]
    /\ UNCHANGED notQueue

\* get_task_details of a queued task, for the rows the query returned
GetTaskDetails(j) ==
    /\ tasks[j].status = "queued"
    /\ \E s \in QueryResults(tasks) :
          details' = [details EXCEPT ![j] =
                        [position |-> PositionIn(s, j), total |-> Len(s)]]
    /\ UNCHANGED tasks
    /\ UNCHANGED notQueue

QueueNext ==
    \/ \E j \in TaskIds, ts \in 1..MaxStamp : CreateTask(j, ts)
    \/ \E j \in TaskIds : TaskStarts(j)
    \/ \E j \in TaskIds : GetTaskDetails(j)

(***************************************************************************)
(* Session store (UserSessionManager)                                      *)
(***************************************************************************)
\* _lock is a threading.Lock: a thread that holds it and asks for it again
\* waits for ever.  Every "with self._lock" block below is one step whose
\* guard is that the lock is free; only _cleanup_check keeps the lock over
\* further steps, while it calls clear_files.
NoCall == [op |-> "none", user |-> "", field |-> ""]
NoRet == [files |-> {}, value |-> FALSE, error |-> FALSE]

\* cleanup_expired_sessions: its position, the users of expired_users still
\* to visit, current_time and the user of the loop; touched records the
\* users whose request threads acted on the store since the scan
NoCleanup == [pc |-> "idle", expired_users |-> {}, current_time |-> 0,
              user |-> "", touched |-> {}]

\* a request thread acts on u's files or entry while a sweep runs
Touched(u) ==
    IF cleanup.pc = "idle" THEN cleanup
    ELSE [cleanup EXCEPT !.touched = @ \cup {u}]

SessionInit ==
    /\ user_data = [u \in Users |-> NoData]
    /\ disk = [u \in Users |-> {}]
    /\ slock = "free"
    /\ tpc = [t \in Threads |-> "idle"]
    /\ tcall = [t \in Threads |-> NoCall]
    /\ tret = [t \in Threads |-> NoRet]
    /\ cleanup = NoCleanup

\* the uuid4 names of a call are new: they name no file on disk and no
\* descriptor of a session
FreshNames(w) ==
    \A v \in Users : Saved(w) \cap (disk[v] \cup user_data[v].files) = {}

GetOps == {"get_files", "get_field"}
FieldOps == {"get_field", "store_field"}
SessionOps == GetOps \cup {"store_files", "clear_files", "store_field"}

\* a request thread enters one of the public methods
SessionCall(t, u, op, f) ==
    /\ tpc[t] = "idle"
    /\ (op \in FieldOps) = (f \in Fields)
    /\ op = "store_files" => FreshNames(t)
    /\ tcall' = [tcall EXCEPT ![t] = [op |-> op, user |-> u, field |-> f]]
    /\ tret' = [tret EXCEPT ![t] = NoRet]
    /\ tpc' = [tpc EXCEPT ![t] =
                 IF op \in GetOps THEN "cleanup_check"
                 ELSE IF op = "store_field" THEN "set"
                 ELSE "clear_rmtree"]
    /\ UNCHANGED <<user_data, disk, slock>>
    /\ UNCHANGED cleanup
    /\ UNCHANGED notSession

\* _cleanup_check: the lock is taken; for an expired entry the thread goes on
\* to clear_files with the lock held, otherwise the lock is released
CleanupCheck(t) ==
    /\ tpc[t] = "cleanup_check"
    /\ slock = "free"
    /\ IF Expired(user_data[tcall[t].user], tclock)
         THEN /\ slock' = t
              /\ tpc' = [tpc EXCEPT ![t] = "clear_rmtree"]
         ELSE /\ slock' = "free"
              /\ tpc' = [tpc EXCEPT ![t] = "read"]
    /\ UNCHANGED <<user_data, disk, tcall, tret>>
    /\ UNCHANGED cleanup
    /\ UNCHANGED notSession

\* clear_files: shutil.rmtree(user_dir), before the lock is asked for; when
\* rmtree raises, the error is printed and clear_files goes on
ClearRmtree(t, ok) ==
    /\ tpc[t] = "clear_rmtree"
    /\ disk' = IF ok THEN [disk EXCEPT ![tcall[t].user] = {}] ELSE disk
    /\ tpc' = [tpc EXCEPT ![t] = "clear_lock"]
    /\ UNCHANGED <<user_data, slock, tcall, tret>>
    /\ cleanup' = Touched(tcall[t].user)
    /\ UNCHANGED notSession

\* clear_files: with self._lock the files list is emptied and the time stamp
\* refreshed.  The caller then goes on: _cleanup_check deletes the entry and
\* releases the lock it holds, store_uploaded_files saves the new files,
\* clear_files returns.
ClearLocked(t) ==
    /\ tpc[t] = "clear_lock"
    /\ slock = "free"
    /\ LET u == tcall[t].user
           cleared == IF user_data[u].present
                        THEN [user_data[u] EXCEPT !.files = {}, !.timestamp = tclock]
                        ELSE user_data[u]
       IN IF tcall[t].op \in GetOps
            THEN /\ user_data' = [user_data EXCEPT ![u] = NoData]
                 /\ tpc' = [tpc EXCEPT ![t] = "read"]
                 /\ tret' = tret
            ELSE IF tcall[t].op = "store_files"
            THEN /\ user_data' = [user_data EXCEPT ![u] = cleared]
                 /\ tpc' = [tpc EXCEPT ![t] = "save"]
                 /\ tret' = tret
            ELSE /\ user_data' = [user_data EXCEPT ![u] = cleared]
                 /\ tpc' = [tpc EXCEPT ![t] = "idle"]
                 /\ tret' = [tret EXCEPT ![t] = NoRet]
    /\ tcall' = IF tcall[t].op = "clear_files" THEN [tcall EXCEPT ![t] = NoCall]
                ELSE tcall
    /\ UNCHANGED <<disk, slock>>
    /\ cleanup' = Touched(tcall[t].user)
    /\ UNCHANGED notSession

\* the files of stored_file_info after n saves
SavedFirst(w, n) == {<<w, FileOrder[k]>> : k \in 1..n}

\* what a failed attempt leaves of its own files: the except clause removes
\* the files of stored_file_info, and the file of the save that raised is
\* appended to stored_file_info only after save has returned
FailedSaveLeaves(w, n, partial) ==
    IF partial THEN {<<w, FileOrder[n + 1]>>} ELSE {}

\* store_uploaded_files: file_storage.save for every uploaded file, in the
\* order of the upload; n saves return.  When save n + 1 raises (it may have
\* written a part of its file), the files saved so far are removed and the
\* error is raised again
SaveFiles(t, n, partial) ==
    /\ tpc[t] = "save"
    /\ n = Len(FileOrder) => ~partial
    /\ IF n = Len(FileOrder)
         THEN /\ disk' = [disk EXCEPT ![tcall[t].user] = @ \cup Saved(t)]
              /\ tpc' = [tpc EXCEPT ![t] = "store_lock"]
              /\ tret' = tret
              /\ tcall' = tcall
         ELSE /\ disk' = [disk EXCEPT ![tcall[t].user] =
                             (@ \ SavedFirst(t, n))
                                \cup FailedSaveLeaves(t, n, partial)]
              /\ tpc' = [tpc EXCEPT ![t] = "idle"]
              /\ tret' = [tret EXCEPT ![t] = [NoRet EXCEPT !.error = TRUE]]
              /\ tcall' = [tcall EXCEPT ![t] = NoCall]
    /\ UNCHANGED <<user_data, slock>>
    /\ cleanup' = Touched(tcall[t].user)
    /\ UNCHANGED notSession

\* store_uploaded_files: with self._lock the entry gets the new files list
StoreLocked(t) ==
    /\ tpc[t] = "store_lock"
    /\ slock = "free"
    /\ LET u == tcall[t].user
       IN user_data' = [user_data EXCEPT ![u] =
              [EnsureUserEntry(user_data[u], tclock) EXCEPT !.files = Saved(t),
                                                            !.timestamp = tclock]]
    /\ tpc' = [tpc EXCEPT ![t] = "idle"]
    /\ tret' = [tret EXCEPT ![t] = [NoRet EXCEPT !.files = Saved(t)]]
    /\ tcall' = [tcall EXCEPT ![t] = NoCall]
    /\ UNCHANGED <<disk, slock>>
    /\ cleanup' = Touched(tcall[t].user)
    /\ UNCHANGED notSession

\* store_result, store_config, set_selected_model
SetField(t) ==
    /\ tpc[t] = "set"
    /\ slock = "free"
    /\ LET u == tcall[t].user
           e == EnsureUserEntry(user_data[u], tclock)
       IN user_data' = [user_data EXCEPT ![u] =
              [[e EXCEPT ![tcall[t].field] = TRUE] EXCEPT !.timestamp = tclock]]
    /\ tpc' = [tpc EXCEPT ![t] = "idle"]
    /\ tret' = [tret EXCEPT ![t] = NoRet]
    /\ tcall' = [tcall EXCEPT ![t] = NoCall]
    /\ UNCHANGED <<disk, slock>>
    /\ cleanup' = Touched(tcall[t].user)
    /\ UNCHANGED notSession

\* the "with self._lock: return self._user_data.get(...)" of the getters
ReadLocked(t) ==
    /\ tpc[t] = "read"
    /\ slock = "free"
    /\ LET d == user_data[tcall[t].user]
       IN tret' = [tret EXCEPT ![t] =
              IF tcall[t].op = "get_files"
                THEN [NoRet EXCEPT !.files = d.files]
                ELSE [NoRet EXCEPT !.value = d[tcall[t].field]]]
    /\ tpc' = [tpc EXCEPT ![t] = "idle"]
    /\ tcall' = [tcall EXCEPT ![t] = NoCall]
    /\ UNCHANGED <<user_data, disk, slock>>
    /\ UNCHANGED cleanup
    /\ UNCHANGED notSession

\* ---- cleanup_expired_sessions ----
\* the next user of the for loop, or the end of the sweep
CleanupLoop(c) ==
    IF c.expired_users = {}
      THEN {[c EXCEPT !.pc = "idle", !.user = ""]}
      ELSE {[c EXCEPT !.pc = "rmtree", !.user = u, !.expired_users = @ \ {u}] :
               u \in c.expired_users}

\* with self._lock: the users whose time stamp is older than max_age_seconds
\* are collected
CleanupScan ==
    /\ cleanup.pc = "idle"
    /\ slock = "free"
    /\ cleanup' \in CleanupLoop(
           [pc |-> "idle", user |-> "", touched |-> {},
            expired_users |-> {u \in Users : Expired(user_data[u], tclock)},
            current_time |-> tclock])
    /\ UNCHANGED <<user_data, disk, slock, tpc, tcall, tret>>
    /\ UNCHANGED notSession

\* clear_files of the loop: shutil.rmtree(user_dir), outside the lock
CleanupRmtree(ok) ==
    /\ cleanup.pc = "rmtree"
    /\ disk' = IF ok THEN [disk EXCEPT ![cleanup.user] = {}] ELSE disk
    /\ cleanup' = [cleanup EXCEPT !.pc = "clear_lock"]
    /\ UNCHANGED <<user_data, slock, tpc, tcall, tret>>
    /\ UNCHANGED notSession

\* clear_files of the loop: with self._lock the files list is emptied and
\* _update_timestamp sets the entry's time stamp to time.time()
CleanupClearLocked ==
    /\ cleanup.pc = "clear_lock"
    /\ slock = "free"
    /\ LET u == cleanup.user
       IN user_data' = [user_data EXCEPT ![u] =
              IF @.present THEN [@ EXCEPT !.files = {}, !.timestamp = tclock]
              ELSE @]
    /\ cleanup' = [cleanup EXCEPT !.pc = "recheck"]
    /\ UNCHANGED <<disk, slock, tpc, tcall, tret>>
    /\ UNCHANGED notSession

\* the second "with self._lock" of the loop: the entry is deleted when its
\* time stamp is still older than max_age_seconds at current_time
CleanupRecheck ==
    /\ cleanup.pc = "recheck"
    /\ slock = "free"
    /\ LET u == cleanup.user
       IN user_data' = [user_data EXCEPT ![u] =
              IF Expired(@, cleanup.current_time) THEN NoData ELSE @]
    /\ cleanup' \in CleanupLoop(cleanup)
    /\ UNCHANGED <<disk, slock, tpc, tcall, tret>>
    /\ UNCHANGED notSession

\* the clock advances by more than the session TTL
SessionSteps == {max_age_seconds + 1}

SessionNext ==
    \/ \E t \in Threads, u \in Users, op \in SessionOps, f \in Fields \cup {""} :
          SessionCall(t, u, op, f)
         
    \/ \E t \in Threads : CleanupCheck(t)
    \/ \E t \in Threads, ok \in BOOLEAN : ClearRmtree(t, ok)
    \/ \E t \in Threads : ClearLocked(t)
    \/ \E t \in Threads, n \in 0..Len(FileOrder), partial \in BOOLEAN :
          SaveFiles(t, n, partial)
    \/ \E t \in Threads : StoreLocked(t)
    \/ \E t \in Threads : SetField(t)
    \/ \E t \in Threads : ReadLocked(t)
    \/ \E d \in SessionSteps : ClockTick(d)

(***************************************************************************)
(* Specifications                                                          *)
(***************************************************************************)
Init ==
    /\ JobInit /\ QueueInit /\ ClockInit /\ CacheInit /\ SessionInit /\ InferInit
    /\ StopInit /\ OwnerInit

SpecJob == Init /\ [][JobNext]_vars

SpecCache == Init /\ [][CacheNext]_vars

SpecSession == Init /\ [][SessionNext]_vars
SpecQueue == Init /\ [][QueueNext]_vars

\* uploads of the users and the sweep of the expired sessions
SweepNext ==
    \/ \E t \in Threads, u \in Users : SessionCall(t, u, "store_files", "")
    \/ \E t \in Threads, ok \in BOOLEAN : ClearRmtree(t, ok)
    \/ \E t \in Threads : ClearLocked(t)
    \/ \E t \in Threads, n \in 0..Len(FileOrder), partial \in BOOLEAN :
          SaveFiles(t, n, partial)
    \/ \E t \in Threads : StoreLocked(t)
    \/ CleanupScan
    \/ \E ok \in BOOLEAN : CleanupRmtree(ok)
    \/ CleanupClearLocked
    \/ CleanupRecheck
    \/ \E d \in SessionSteps : ClockTick(d)

SpecSweep == Init /\ [][SweepNext]_vars

\* The threads of the cache keep running: a request that holds a user's lock
\* goes on, a loader thread whose engine call has ended takes the user's lock
\* when it is free, the sweeper wakes up and visits the users it listed, and
\* time passes.
CacheFairness ==
    /\ WF_vars(\E d \in Steps : ClockTick(d))
    /\ \A u \in Users : WF_vars(LoadStart(u))
    /\ \A g \in 1..MaxLoads : WF_vars(\E ok \in BOOLEAN : LoadModelTask(g, ok))
    /\ WF_vars(SweepScan)
    /\ \A u \in Users : WF_vars(SweepEject(u))

SpecCacheFair == Init /\ [][CacheNext]_vars /\ CacheFairness

SpecInfer == Init /\ [][InferNext]_vars

\* a request that waits in future.result(timeout=...) goes on when the future
\* is finished or the wait has lasted timeout_seconds
InferFairness ==
    \A u \in Users : WF_vars(AwaitResult(u) \/ AwaitTimeout(u))

SpecInferFair == Init /\ [][InferNext]_vars /\ InferFairness


(***************************************************************************)
(* Claims about the job registry                                           *)
(***************************************************************************)
\* C1: when a terminal write of the worker races with a cancel request that
\* succeeded, the status that persists once the worker has finished is
\* cancelled: a completed or failed write that lands after the cancellation
\* is discarded.
C1_CancellationWins ==
    (wpc = "done" /\ hpc = "idle" /\ lastCancel.ok) => rec.status = "cancelled"

\* C2: once the persisted status is completed, failed or cancelled, no step
\* of the request handlers or of the worker changes it again.
C2_TerminalIsFinal ==
    [][rec.status \in TerminalStatuses => rec'.status = rec.status]_vars

\* the edges of the job state machine, creation included
AllowedEdges ==
    {<<"none", "queued">>, <<"queued", "running">>, <<"running", "completed">>,
     <<"running", "failed">>, <<"running", "cancelled">>, <<"queued", "cancelled">>}

\* C3: every change of the persisted status follows an edge of the state
\* machine queued -> running -> {completed, failed, cancelled} or
\* queued -> cancelled; a job is created in queued.
C3_OnlyAllowedEdges ==
    [][rec'.status # rec.status => <<rec.status, rec'.status>> \in AllowedEdges]_vars

\* C8: a cancel request on a job that is already cancelled reports no error
\* and leaves it cancelled; a cancel request on a completed job is answered
\* with 409 Conflict and leaves the status completed.
C8_CancelIdempotent ==
    [][(hpc = "idle" /\ cancels' = cancels + 1) =>
          /\ rec.status = "cancelled" =>
                (lastCancel'.ok /\ rec'.status = "cancelled")
          /\ rec.status = "completed" =>
                (~lastCancel'.ok /\ lastCancel'.code = 409
                    /\ rec'.status = "completed")]_vars

\* C9: once the callback has observed the sentinel (it has set
\* trainer.stop_training and removed the file) nothing more is written to
\* the job row: no progress counters, no metrics, no status.
C9_NoWriteAfterObservedCancel ==
    [][stop => rec' = rec]_vars

\* C10: a cancel request that found the job queued sets cancelled and writes
\* no sentinel; one that found it running sets cancelled and writes the
\* sentinel; one that found any other status changes neither the row nor
\* the task directory.
C10_CancelEffect ==
    [][/\ (hpc = "commit" /\ hpc' = "idle") =>
            /\ rec'.status = "cancelled"
            /\ hOrig = "queued" => sentinel' = sentinel
            /\ hOrig = "running" => sentinel'
       /\ (hpc = "idle" /\ cancels' = cancels + 1
             /\ rec.status \notin {"queued", "running"}) =>
            (rec' = rec /\ sentinel' = sentinel /\ hpc' = "idle")]_vars

\* C4: the outcome of a loader thread is applied only to the entry created by
\* the Load request that started the thread (the entry whose load_thread is
\* that thread); in every other case the step in which the loader finishes
\* leaves the user's current entry unchanged.
C4_StaleResultRejected ==
    [][\A g \in 1..MaxLoads :
          (loaders[g].phase = "running" /\ loaders'[g].phase = "done"
           /\ user_loaded_models[loaders[g].user].load_thread # g)
          => user_loaded_models'[loaders[g].user] = user_loaded_models[loaders[g].user]
      ]_vars

\* C5: a user has one cache entry at most (the cache is a function of the
\* user), and a Loading entry is created for a user only by a request that
\* holds the user's lock, when no entry of a different model is left for the
\* user and before the loader named by the new entry has been started.
C5_SingleActiveModel ==
    [][\A u \in Users :
          (user_loaded_models'[u] # user_loaded_models[u]
           /\ user_loaded_models'[u].status = "loading")
          => /\ ulock[u] = ReqHolder
             /\ \/ user_loaded_models[u] = NoEntry
                \/ user_loaded_models[u].model_name = user_loaded_models'[u].model_name
             /\ loaders[user_loaded_models'[u].load_thread].phase = "unused"
             /\ loaders'[user_loaded_models'[u].load_thread].phase = "running"
      ]_vars

\* C5, the case: a Load of B holds the lock of a user whose entry targeted
\* A, has evicted that entry and is about to create the entry of B (no Eject,
\* DeleteModel or sweep has removed the entry of A: the clock has not
\* advanced, so nothing has been idle)
C5_Witness ==
    \E u \in Users :
        /\ rpc[u] = "load_start" /\ rarg[u] = "B" /\ selected[u] = "A"
        /\ user_loaded_models[u] = NoEntry
        /\ ulock[u] = ReqHolder
        /\ ticks = 0

\* C6: the sweeper removes a user's entry only when, under the user's lock,
\* that entry has an access time older than the idle threshold; an entry
\* created for the user after the scan is not removed in that cycle.
C6_SweeperEvictsOnlyIdle ==
    [][\A u \in Users :
          (spc = "eject" /\ u \in sList /\ u \notin sList'
           /\ user_loaded_models[u] # NoEntry /\ user_loaded_models'[u] = NoEntry)
          => /\ last_access[u] # NoTime
             /\ sNow - last_access[u] > model_max_idle_time_seconds
      ]_vars

\* C7: a getter that finds the user's session entry expired returns to its
\* caller: no thread waits in clear_files for the store lock while it is
\* itself the holder of that lock.
C7_ExpiredGetReturns ==
    \A t \in Threads : ~(tpc[t] = "clear_lock" /\ slock = t)

\* C11: a job whose status is cancelled is never moved to running: the
\* executor's Start is a no-op for it and the status stays cancelled.
C11_StartRejectedForCancelled ==
    [][rec.status = "cancelled" => rec'.status # "running"]_vars

\* C12: every cache entry in status loading leaves that status (it becomes
\* loaded or error, or it is removed), given that the engine's load call of
\* every loader thread returns or raises.
C12_LoadingProgresses ==
    \A u \in Users :
        (user_loaded_models[u].status = "loading")
            ~> (user_loaded_models[u].status # "loading")

\* C13: the readiness check of Start hands out the handle only for an entry
\* in status loaded, and its three failures (entry loading, entry in error,
\* no entry) reach the caller as three distinct kinds of response: two users
\* whose entries are in different non-loaded conditions get different status
\* codes from handle_command.
C13_ReadinessErrorKinds ==
    \A u, v \in Users :
        LET a == user_loaded_models[u]
            b == user_loaded_models[v]
        IN /\ ReadyOutcome(a) = "handle" => a.status = "loaded"
           /\ (a.status # b.status /\ a.status # "loaded" /\ b.status # "loaded")
                => HandleCommandStatus(ReadyException(a))
                     # HandleCommandStatus(ReadyException(b))

C15_EjectAlwaysSucceeds ==
    [][\A u \in Users :
          EjectModel(u)
          => /\ rpc'[u] = "idle" /\ ulock'[u] = FreeLock
             /\ user_loaded_models'[u] = NoEntry
             /\ last_access'[u] = NoTime
             /\ user_loaded_models[u] = NoEntry
                  => /\ user_loaded_models' = user_loaded_models
                     /\ last_access' = last_access
      ]_vars

\* C16: in every state the entry of every user carries a handle exactly when
\* its status is loaded: loading and error entries have no model instance, a
\* loaded entry has one.
C16_HandleIffLoaded ==
    \A u \in Users :
        user_loaded_models[u] # NoEntry
        => (user_loaded_models[u].model_instance # 0
              <=> user_loaded_models[u].status = "loaded")

\* C16, the case: the loaders have written both outcomes: one user's entry
\* is loaded with the handle of its loader, another user's load has failed
C16_Witness ==
    \E u, v \in Users :
        /\ user_loaded_models[u].status = "loaded"
        /\ user_loaded_models[u].model_instance # 0
        /\ user_loaded_models[v].status = "error"

\* C17: an entry that is left untouched while the clock advances by more
\* than the idle threshold is evicted by the sweeper, whatever its status: an
\* entry that has a given status before the clock's first step (of more than
\* model_max_idle_time_seconds) does not keep that status for ever without
\* being accessed, as long as no request is stuck with a lock in its hands.
C17_IdleEntryEvicted ==
    \A u \in Users : \A s \in {"loading", "loaded", "error"} :
        (user_loaded_models[u].status = s /\ ticks = 0)
            ~> (\/ user_loaded_models[u].status # s
                \/ last_access[u] > model_max_idle_time_seconds + 1
                \/ \E v \in Users : rpc[v] = "blocked")

\* C18: a Start command that waits for a future which is not finished when
\* the wait ends does not wait for ever: it ends, and the step in which it
\* ends with the awaited future unfinished answers with the timeout error,
\* has called cancel() on every future of the request that was not finished,
\* and leaves the session (the stored last result) as it was.
C18_TimeoutEndsCall ==
    /\ [][\A u \in Users :
            (rpc[u] = "await" /\ rpc'[u] # "await"
             /\ fut[u][ipos[u] + 1] \in {"pending", "running"})
            => /\ resp'[u].why = "timeout"
               /\ resp'[u].status >= 400
               /\ cancelReq'[u] = {j \in Images : fut[u][j] \in {"pending", "running"}}
               /\ user_data' = user_data
        ]_vars
    /\ \A u \in Users : (rpc[u] = "await") ~> (rpc[u] # "await")

\* C18, the case: a Start that had stored a result was followed by a Start
\* that took the first image's value and timed out on the second
C18_Witness ==
    \E u \in Users :
        /\ resp[u].why = "timeout"
        /\ cancelReq[u] = {2}
        /\ user_data[u].result

\* C19: every task of the pool completes its future with a value, the success
\* payload or the failure payload: no future is completed with an exception,
\* whatever the engine does with the image.
C19_FutureHoldsValue ==
    \A u \in Users : \A i \in Images : fut[u][i] # "exception"

\* C20: a Start command that is refused because the model is still loading,
\* or that ends because the wait for a result timed out, is answered with a
\* status code that differs from the code handle_command gives an internal
\* fault (an exception it has no clause for).
C20_RetryableKindsDiffer ==
    \A u \in Users :
        resp[u].why \in {"loading", "timeout"}
        => resp[u].status # HandleCommandStatus("Exception")

\* ---- C21 ----
\* the pool's work queue is first in, first out: a work item that waits is
\* taken when a worker thread is free often enough
PoolFairness ==
    /\ \A u \in Users, i \in Images : SF_vars(PoolStart(u, i))
    /\ SF_vars(AbandonedStart)

\* the Start commands and the pool, with the uploads and loads they need
PoolNext ==
    \/ \E u \in Users : UploadPicture(u)
    \/ \E u \in Users, m \in Models : LoadCheck(u, m)
    \/ \E u \in Users : LoadStart(u)
    \/ \E g \in 1..MaxLoads, ok \in BOOLEAN : LoadModelTask(g, ok)
    \/ \E u \in Users : StartInference(u)
    \/ \E u \in Users, i \in Images : PoolStart(u, i)
    \/ \E u \in Users, i \in Images, e \in EngineOutcomes : PoolFinish(u, i, e)
    \/ AbandonedStart
    \/ AbandonedFinish
    \/ \E u \in Users : AwaitResult(u)
    \/ \E u \in Users : AwaitTimeout(u)

SpecPool == Init /\ [][PoolNext]_vars
SpecPoolFair == Init /\ [][PoolNext]_vars /\ PoolFairness

\* a Start command whose readiness check hands out the handle
StartSubmits(u) ==
    /\ StartInference(u)
    /\ GetFilesOutcome(u) = "ok"
    /\ ReadyOutcome(user_loaded_models[u]) = "handle"

\* C21: the tasks that execute at the same time are never more than the
\* workers of the pool; a Start command that submits while every worker is
\* busy is not rejected, its tasks wait in the queue; and when a worker is
\* free again and again the queue empties, every waiting task is started
C21_BoundedPool ==
    /\ [](Busy <= max_workers)
    /\ [][\A u \in Users :
            StartSubmits(u) => /\ \A i \in Images : fut'[u][i] = "pending"
                               /\ Busy' = Busy
                               /\ rpc'[u] = "await"]_vars
    /\ ([]<>WorkerFree) => <>[](Queued = 0)

\* every worker executes a task while further tasks wait in the queue
C21_Witness ==
    /\ Busy = max_workers
    /\ Queued > 0

\* ---- C22 ----
\* the step in which store_uploaded_files of thread t returns its new list
StoreReturns(t) == StoreLocked(t)

\* the step in which the clear_files of a store_uploaded_files call drops
\* the previous list
StoreDropsPrevious(t) == ClearLocked(t) /\ tcall[t].op = "store_files"

\* C22: a store_uploaded_files call that succeeds replaces the user's file
\* set: the files of the previous list are gone from the upload directory
\* when the list is dropped, and at the return the list is exactly the new
\* set, every file of the new set is in the upload directory, the time stamp
\* is refreshed, and result, config and selected model are as they were.
C22_StoreReplacesFiles ==
    [][\A t \in Threads :
         LET u == tcall[t].user
             e == EnsureUserEntry(user_data[u], tclock)
         IN /\ StoreDropsPrevious(t) => user_data[u].files \cap disk[u] = {}
            /\ StoreReturns(t) =>
                 /\ user_data'[u].files = Saved(t)
                 /\ Saved(t) \subseteq disk'[u]
                 /\ user_data'[u].timestamp = tclock
                 /\ user_data'[u].result = e.result
                 /\ user_data'[u].config = e.config
                 /\ user_data'[u].selected_model = e.selected_model
      ]_vars

\* ---- C23 ----
\* the step in which a save of thread t's store_uploaded_files raises
StoreFails(t) ==
    \E n \in 0..Len(FileOrder), partial \in BOOLEAN :
        SaveFiles(t, n, partial) /\ n < Len(FileOrder)

\* C23: when a save fails, store_uploaded_files raises the error, no file
\* of the attempt is left in the upload directory, and the session's list
\* holds no file of the attempt.
C23_FailedStoreLeavesNothing ==
    [][\A t \in Threads :
         StoreFails(t) =>
           /\ tret'[t].error
           /\ Saved(t) \cap disk'[tcall[t].user] = {}
           /\ Saved(t) \cap user_data'[tcall[t].user].files = {}
      ]_vars

\* ---- C29 ----
\* C29: when no call of the session store is in progress, every descriptor
\* of a session's file list names a file of the upload directory, and the
\* list is empty or the whole set of one store_uploaded_files call.
C29_ListMatchesDisk ==
    (\A t \in Threads : tpc[t] = "idle") =>
        \A u \in Users :
           /\ user_data[u].files \subseteq disk[u]
           /\ \/ user_data[u].files = {}
              \/ \E t \in Threads : user_data[u].files = Saved(t)

\* ---- C30 ----
\* the sweep has finished with the user of the loop
SweepPurged(u) ==
    /\ ~user_data'[u].present
    /\ disk'[u] = {}

\* the entry of the loop's user was refreshed by its user after the scan
TouchedEntry(u) == ~Expired(user_data[u], cleanup.current_time)

\* C30: when cleanup_expired_sessions is through with an entry that was
\* past its TTL at the scan and that no request of its user touched during
\* the sweep, the entry is gone from the store and its upload directory is
\* empty; an entry its user refreshed during the sweep keeps its file list,
\* and the files of that list stay in the upload directory.
C30_SweepPurgesExpired ==
    [][LET u == cleanup.user
       IN /\ (CleanupRecheck /\ u \notin cleanup.touched) => SweepPurged(u)
          /\ ((\E ok \in BOOLEAN : CleanupRmtree(ok)) /\ TouchedEntry(u)) =>
                 (user_data[u].files \cap disk[u]) \subseteq disk'[u]
          /\ (CleanupClearLocked /\ TouchedEntry(u)) =>
                 user_data'[u].files = user_data[u].files
      ]_vars

\* ---- C24 ----
\* the 1-based rank of j among the queued tasks by created_at, then id
RankOf(tb, j) ==
    Cardinality({k \in QueuedTasks(tb) :
                    \/ tb[k].created_at < tb[j].created_at
                    \/ tb[k].created_at = tb[j].created_at /\ k <= j})

\* C24: the position get_task_details reports for a queued task is its rank
\* among the queued tasks in ascending created_at with ties broken by id; it
\* lies between 1 and the reported total, which is the number of queued tasks.
C24_QueuePosition ==
    [][\A j \in TaskIds :
         GetTaskDetails(j) =>
            /\ details'[j].position = RankOf(tasks, j)
            /\ details'[j].position \in 1..details'[j].total
            /\ details'[j].total = Cardinality(QueuedTasks(tasks))
      ]_vars

\* ---- C25 ----
\* the worker process runs: each of its steps, the hooks of the trainer and
\* the return of the engine call are taken when they can be
JobFairness ==
    /\ WF_vars(WLoad) /\ WF_vars(WCancelledCleanup) /\ WF_vars(WStartCommit)
    /\ WF_vars(WSentinelCheck)
    /\ WF_vars(\E outcome \in {"ok", "value_error", "not_found"} : WPrep(outcome))
    /\ WF_vars(\E ok \in BOOLEAN : EngineValidate(ok))
    /\ WF_vars(WPostRead) /\ WF_vars(WTerminalWrite)
    /\ WF_vars(WExceptRead) /\ WF_vars(WExceptWrite) /\ WF_vars(WExceptNotFound)
    /\ WF_vars(WFinally)
    /\ WF_vars(CbPretrainStart) /\ WF_vars(\E c \in BOOLEAN : CbPretrainEnd(c))
    /\ WF_vars(\E c \in BOOLEAN : CbTrainBatchEnd(c) \/ CbFitEpochEnd(c) \/ EngineStop)
    /\ WF_vars(CbTrainEndRead) /\ WF_vars(\E c \in BOOLEAN : CbTrainEndWrite(c))
    /\ WF_vars(\E ok \in BOOLEAN : EngineReturn(ok))

SpecJobFair == Init /\ [][JobNext]_vars /\ JobFairness

\* the step with which the task function leaves its except clause
ExceptLeft ==
    /\ wpc \in {"except", "except_write", "except_nf"}
    /\ wpc' = "finally"

\* C25: when an exception reaches the except clauses of the task function,
\* the job is failed with an error message when the clause is left, unless
\* it is completed or cancelled; and every job that is running reaches a
\* terminal status, given that the engine call returns or raises.
C25_FaultFailsJob ==
    /\ [][ExceptLeft =>
            \/ rec' = NoRec
            \/ rec'.status \in {"completed", "cancelled"}
            \/ rec'.status = "failed" /\ rec'.error_message # ""]_vars
    /\ (rec # NoRec /\ rec.status = "running")
          ~> (rec = NoRec \/ rec.status \in TerminalStatuses)

\* a running job was failed by the except clause
C25_Witness ==
    /\ rec # NoRec
    /\ rec.status = "failed"
    /\ rec.error_message = "exception"
    /\ wSt = "running"
    /\ wpc = "finally"

\* ---- C26 ----
\* the Start command and the pool together with the idle sweeper
EvictNext ==
    \/ \E u \in Users : UploadPicture(u)
    \/ \E u \in Users : LoadCheck(u, "A")
    \/ \E u \in Users : LoadStart(u)
    \/ \E g \in 1..MaxLoads, ok \in BOOLEAN : LoadModelTask(g, ok)
    \/ \E u \in Users : StartInference(u)
    \/ \E u \in Users, i \in Images : PoolStart(u, i)
    \/ \E u \in Users, i \in Images, e \in EngineOutcomes : PoolFinish(u, i, e)
    \/ AbandonedStart
    \/ AbandonedFinish
    \/ \E u \in Users : AwaitResult(u)
    \/ \E u \in Users : AwaitTimeout(u)
    \/ SweepScan
    \/ \E u \in Users : SweepEject(u)
    \/ \E d \in Steps : ClockTick(d)

SpecEvict == Init /\ [][EvictNext]_vars

\* a task of u's Start command waits in the pool or runs
TaskInPool(u) == \E i \in Images : fut[u][i] \in {"pending", "running"}

\* C26: a task of a Start command waits or runs only on the handle of the
\* user's present cache entry: the entry the handle was taken from has not
\* been evicted.
C26_HandleExclusive ==
    \A u \in Users :
       TaskInPool(u) => user_loaded_models[u].model_instance = instance[u]

\* ---- C27 ----
\* a step writes u's cache entry or u's idle time stamp
WritesEntry(u) ==
    \/ user_loaded_models'[u] # user_loaded_models[u]
    \/ last_access'[u] # last_access[u]

\* a step of a thread that is not the holder of u's lock reads u's cache
\* entry or u's idle time stamp: the scan of the sweeper copies the time
\* stamps and the keys of all users
ReadsEntryUnlocked(u) == SweepScan

\* C27: while a thread is inside the critical section of user u, no other
\* thread writes or reads u's cache entry or u's idle time stamp: the only
\* step that touches them is the holder's own.
C27_UserLockOrdersAccess ==
    [][\A u \in Users :
         ulock[u] # FreeLock =>
            /\ WritesEntry(u) => LoadStart(u)
            /\ ~ReadsEntryUnlocked(u)
      ]_vars

\* ---- C28 ----
\* the request of user u waits for the lock of the session store while the
\* lock is held on behalf of another user
WaitsForOtherUser(u) == rpc[u] = "blocked" /\ slock \in Users \ {u}

\* C28: operations on different users never contend: a cache operation of
\* user u never waits for a lock that is held for an operation of another
\* user.
C28_UsersNeverContend == \A u \in Users : ~WaitsForOtherUser(u)

\* ---- C31 ----
\* the batch hook runs with no sentinel present: its update is the
\* non-forced progress update
NonForcedUpdate == ~sentinel /\ \E c \in BOOLEAN : CbTrainBatchEnd(c)

\* the epoch hook runs with no sentinel present and the database takes the
\* write: its update is forced
ForcedUpdate == ~sentinel /\ CbFitEpochEnd(TRUE)

\* less than the interval has passed since the last applied non-forced update
InsideInterval == lastUpd # 0 /\ now - lastUpd < db_update_interval

\* C31: a non-forced progress update that arrives less than
\* db_update_interval after the last applied non-forced update changes
\* nothing in the job record, a non-forced update that is applied is at least
\* the interval after the previous one, and a forced update is written to the
\* record whatever time has passed.
C31_RateLimit ==
    [][/\ NonForcedUpdate /\ InsideInterval => rec' = rec /\ lastUpd' = lastUpd
       /\ NonForcedUpdate /\ lastUpd' # lastUpd =>
             /\ lastUpd = 0 \/ now - lastUpd >= db_update_interval
             /\ lastUpd' = now
       /\ ForcedUpdate /\ rec # NoRec =>
             rec'.current_epoch = tepoch + 1 /\ rec'.metrics = "epoch"
      ]_vars

\* a forced update has been written less than the interval after an applied
\* non-forced one
C31_Witness ==
    /\ InsideInterval
    /\ rec.metrics = "epoch"
    /\ wpc = "engine"

\* ---- C32 ----
\* a step of the callback whose terminal write (completed at the end of the
\* training, cancelled on a sentinel) is not persisted
TerminalWriteLost ==
    /\ rec # NoRec
    /\ \/ CbTrainEndWrite(FALSE)
       \/ sentinel /\ (CbPretrainEnd(FALSE) \/ CbTrainBatchEnd(FALSE) \/ CbFitEpochEnd(FALSE))

\* the failure leaves the hook as an exception: the training ends and
\* run_yolo_training reports failure to the worker
RaisedToWriter == wpc = "post_read" /\ ~success

\* C32: a terminal status that fails to persist is raised to the writer as a
\* fatal error: the writer never carries on as if the write had succeeded.
C32_TerminalFailureRaised == [][TerminalWriteLost => RaisedToWriter']_vars

\* ---- C33 ----
\* the fields a terminal write sets
TerminalFields(r) == <<r.status, r.error_message, r.completed_at>>

\* C33: the persisted current_epoch of a job never decreases, and a terminal
\* write is one-shot: once the row holds a terminal status, a later write
\* leaves its status, error message and completion time as they are.
C33_NoRegression ==
    [][rec # NoRec =>
          /\ rec'.current_epoch >= rec.current_epoch
          /\ rec.status \in TerminalStatuses => TerminalFields(rec') = TerminalFields(rec)
      ]_vars

\* ---- C34 ----
\* the model cache together with shutdown_service
StopNext ==
    \/ \E u \in Users, m \in Models : LoadCheck(u, m)
    \/ \E u \in Users : LoadStart(u)
    \/ \E u \in Users : EjectModel(u)
    \/ \E u \in Users, m \in ModelNames : DeleteModel(u, m)
    \/ \E g \in 1..MaxLoads, ok \in BOOLEAN : LoadModelTask(g, ok)
    \/ SweepScan
    \/ \E u \in Users : SweepEject(u)
    \/ SweepExit
    \/ ShutdownSet
    \/ \E timedOut \in BOOLEAN : ShutdownJoin(timedOut)
    \/ \E d \in Steps : ClockTick(d)

SpecStop == Init /\ [][StopNext]_vars

\* the threads of the cache keep running, the sweeper's wait on the event
\* ends, and the timeout of the join passes
StopFairness ==
    /\ CacheFairness
    /\ WF_vars(SweepExit)
    /\ WF_vars(\E timedOut \in BOOLEAN : ShutdownJoin(timedOut))

SpecStopFair == Init /\ [][StopNext]_vars /\ StopFairness

\* C34: once shutdown_service has set the stop event the sweeper starts no
\* new cycle and its loop ends, and shutdown_service returns from its join
\* whether or not the sweeper has stopped.
C34_SweeperStops ==
    /\ [][stop_cleanup_event => ~SweepScan]_vars
    /\ stop_cleanup_event ~> spc = "stopped"
    /\ shpc = "join" ~> shpc = "returned"

\* ---- C35 ----
\* an executor run of the job is in progress
RunActive == wpc \notin {"idle", "done"}

\* C35: the sentinel file of a job exists only while the job's status is
\* cancelled and an executor run of the job is in progress; once the run has
\* ended no sentinel is left and none is created.
C35_SentinelOnlyWhileCancelling ==
    sentinel => rec.status = "cancelled" /\ RunActive

\* ---- C36 ----
\* C36: a job row exists, and a message for the job is dispatched, only when
\* the inputs of the job were prepared (the generated dataset configuration
\* is recorded in the row); a create request that has failed without a row
\* has removed the job's directory.
C36_CreateAllOrNothing ==
    /\ rec # NoRec => rec.config
    /\ dispatched => rec # NoRec /\ rec.config
    /\ (cpc = "failed" /\ rec = NoRec) => ~dirExists

\* ---- C37 ----
\* a cancel request returns failure to its caller in this step
CancelReportsFailure ==
    /\ (\E u \in Users : CancelRead(u)) \/ CancelCommit
    /\ hpc' = "idle"
    /\ ~lastCancel'.ok

\* C37: a cancel request that reports failure (job not found, status not
\* cancellable, server error) leaves the job row as it was: it never leaves
\* the job cancelled.
C37_FailedCancelChangesNothing ==
    [][CancelReportsFailure => rec' = rec]_vars

\* ---- C38, C39 ----
\* the job registry with the requests of the owner and of another user
OwnerNext ==
    \/ \E k \in Kinds, inputsOk \in BOOLEAN, prepOk \in BOOLEAN :
          CreateInsert(k, inputsOk, prepOk)
    \/ \E sendOk \in BOOLEAN : CreateDispatch(sendOk)
    \/ \E u \in Users : CancelRead(u)
    \/ CancelCommit
    \/ \E u \in Users : DeleteRead(u)
    \/ \E removed \in BOOLEAN : DeleteRmtree(removed)
    \/ DeleteCommit
    \/ \E u \in Users, op \in ReadOps : ReadRequest(u, op)
    \/ WLoad
    \/ WCancelledCleanup
    \/ WStartCommit
    \/ WSentinelCheck
    \/ \E outcome \in {"ok", "value_error", "not_found"} : WPrep(outcome)
    \/ \E ok \in BOOLEAN : EngineValidate(ok)
    \/ WPostRead
    \/ WTerminalWrite
    \/ WExceptRead
    \/ WExceptWrite
    \/ WExceptNotFound
    \/ WFinally
    \/ CbPretrainStart
    \/ \E committed \in BOOLEAN : CbPretrainEnd(committed)
    \/ \E committed \in BOOLEAN : CbTrainBatchEnd(committed)
    \/ \E committed \in BOOLEAN : CbFitEpochEnd(committed)
    \/ EngineStop
    \/ CbTrainEndRead
    \/ \E committed \in BOOLEAN : CbTrainEndWrite(committed)
    \/ \E ok \in BOOLEAN : EngineReturn(ok)
    \/ EngineRaise

SpecOwner == Init /\ [][OwnerNext]_vars

\* a step of a cancel, delete, detail, log or output request of user v
RequestStep(v) ==
    \/ CancelRead(v)
    \/ DeleteRead(v)
    \/ \E op \in ReadOps : ReadRequest(v, op)

\* C38: a cancel, delete, detail, log or output request of a user who is not
\* the owner of the job is answered as not found, changes neither the row,
\* the sentinel file nor the directory of the job, starts no commit or
\* removal, and returns none of the job's fields.
C38_OwnerIsolation ==
    [][\A v \in Users \ {Owner} :
          RequestStep(v) =>
             /\ rec' = rec /\ sentinel' = sentinel /\ dirExists' = dirExists
             /\ hpc' = hpc /\ dpc' = dpc
             /\ lastCancel' # lastCancel => lastCancel' = [ok |-> FALSE, code |-> 404]
             /\ lastReq' # lastReq =>
                   ~lastReq'.found /\ ~lastReq'.ok /\ lastReq'.task = NoRec
      ]_vars

\* another user's delete request on an existing job was answered not found
C38_Witness ==
    /\ lastReq.user # Owner
    /\ lastReq.op = "delete"
    /\ lastReq.existed
    /\ ~lastReq.found
    /\ rec # NoRec

\* the delete request removes the directory or the row of the job in this step
DeleteRemoves == (\E removed \in BOOLEAN : DeleteRmtree(removed)) \/ DeleteCommit

\* C39: the owner's delete request is rejected while the status is running
\* and then changes nothing; in every other status it goes on to remove the
\* row; and neither the directory nor the row of a job is removed while an
\* executor is running the job.
C39_NoDeleteWhileRunning ==
    [][/\ (DeleteRead(Owner) /\ rec.status = "running") =>
             rec' = rec /\ dirExists' = dirExists /\ dpc' = dpc /\ ~lastReq'.ok
       /\ (DeleteRead(Owner) /\ rec # NoRec /\ rec.status # "running") =>
             dpc'.pc = "rmtree"
       /\ DeleteCommit => rec' = NoRec
       /\ DeleteRemoves => ~(rec.status = "running" /\ RunActive)
      ]_vars

\* ---- C40 ----
\* a DeleteModel of u for a file that exists
Deletes(u, m) == DeleteModel(u, m) /\ DeleteError(modelFiles[u], m) = "none"

\* a DeleteModel of u that ends with ValueError or FileNotFoundError
DeleteRaises(u, m) == DeleteModel(u, m) /\ DeleteError(modelFiles[u], m) # "none"

\* the request of u has returned: it does not wait for a lock
Returned(u) == rpc[u] = "idle"

\* C40: a DeleteModel of the model of u's current entry (loading or loaded)
\* leaves u without an entry and without an idle time stamp, the readiness
\* check yields no handle, and once the call has returned the selection does
\* not name the model; a DeleteModel of another model leaves u's entry and
\* idle time stamp as they were; a DeleteModel that raises for an invalid
\* name or a missing file leaves the cache, the model files and the session
\* store as they were; and no entry names a model whose file was deleted.
C40_DeleteEvictsActive ==
    /\ [][\A u \in Users, m \in ModelNames :
            /\ (Deletes(u, m) /\ WasActiveModel(user_loaded_models[u], m))
                  => /\ user_loaded_models'[u] = NoEntry
                     /\ last_access'[u] = NoTime
                     /\ ReadyOutcome(user_loaded_models'[u]) # "handle"
                     /\ m \notin modelFiles'[u]
                     /\ Returned(u)' => selected'[u] # m
            /\ (Deletes(u, m) /\ ~WasActiveModel(user_loaded_models[u], m))
                  => /\ user_loaded_models'[u] = user_loaded_models[u]
                     /\ last_access'[u] = last_access[u]
                     /\ m \notin modelFiles'[u]
                     /\ Returned(u)' => selected'[u] # m
            /\ DeleteRaises(u, m) => UNCHANGED <<cacheVars, sessionVars>>
       ]_vars
    /\ [](\A u \in Users :
            user_loaded_models[u] # NoEntry
               => user_loaded_models[u].model_name \in modelFiles[u])

\* the file of model A of a user is deleted and the request has returned,
\* the loader thread started for that model is still at work, and the user
\* has no entry, no idle time stamp and no selection
C40_Witness ==
    \E u \in Users, g \in 1..MaxLoads :
        /\ loaders[g] # NoLoader
        /\ loaders[g].user = u
        /\ loaders[g].model = "A"
        /\ loaders[g].phase = "running"
        /\ "A" \notin modelFiles[u]
        /\ user_loaded_models[u] = NoEntry
        /\ last_access[u] = NoTime
        /\ selected[u] = NoModel
        /\ Returned(u)

====
